---- MODULE Spec2Model ----
(***************************************************************************)
(* State-machine models of the concurrency-bearing utilities of the        *)
(* monorepo template:                                                      *)
(*   - PromiseCache      (vendor/cache/src/promise.ts)                     *)
(*   - MutexManager      (vendor/mutex, over async-mutex)                  *)
(*   - MigrationRunner   (vendor/migrations/src/runner.ts)                 *)
(*   - RedisCacheManager (vendor/cache/src/redis-client.ts)                *)
(*   - batch utilities   (vendor/common/src/utils/runtime.ts, random.ts)   *)
(* Each component has its own specifications (SpecPC, SpecMutex, SpecMig,  *)
(* SpecRedis, SpecBatch, ...); the variables of the other components stay  *)
(* at their initial                                                        *)
(* values.  JavaScript runs handlers to completion, so one action is one   *)
(* synchronous stretch of code between two suspension points (await,       *)
(* timer, I/O completion).                                                 *)
(***************************************************************************)
EXTENDS Integers, Sequences, FiniteSets, TLC

VARIABLES
    \* ---- PromiseCache ----
    maxAge,          \* constructor argument
    cache,           \* this.cache: id of the stored promise, or Null
    expirationTime,  \* this.expirationTime: a time, or Null
    now,             \* Date.now()
    promises,        \* promise id -> [gen, st, doneAt]; the promise made by the id-th get()
    timers,          \* due times of the pending setTimeout(() => this.clear(), maxAge)
    calls,           \* calls[i]: the promise the i-th get() returned, and whether it ran its generator
    delivered,       \* promises whose outcome has reached the awaiting callers
    clears,          \* history: number of explicit clear() calls so far
    lastFailure,     \* history: "failed"/"delivered" after a generator failure, until the next get()
    \* ---- MutexManager ----
    ttl,             \* constructor argument
    mxNow,           \* clock
    mutexMap,        \* this.mutexMap: key -> id of its Mutex object, or Null
    cleanupTimers,   \* this.cleanupTimers: key -> due time of its cleanup timer, or Null
    nextMutex,       \* number of Mutex objects created so far
    holder,          \* Mutex id -> the task holding the lock, or Null
    waitq,           \* Mutex id -> tasks queued in acquire(), in order
    task,            \* task -> [pc, key, mutex]: a caller of runExclusive / waitIfLocked
    lastUse,         \* history: key -> time of the last getMutex for its current mutex, or Null
    gets,            \* history: the direct getMutex(key) calls: the key given, the Mutex returned
    \* ---- MigrationRunner ----
    runningMigrations, \* this.runningMigrations
    completed,       \* migration name -> what its isCompleted() answers
    mcall,           \* call -> [op, name, pc, options, results, err, made]: a call of the runner
    orphans,         \* the up / down functions still running after their call timed out
    \* ---- RedisCacheManager ----
    store,           \* the Redis server: key -> the stored JSON text, or NoText
    rcall,           \* call -> [op, key, pc, value, result, fetched]: a get/set/delete call
    \* ---- Redis client socket (reconnectStrategy) ----
    rsConn,          \* "connecting", "waiting" (retry delay running), "ready" or "closed"
    rsRetries,       \* the retries argument of the next reconnectStrategy call
    rsDelays,        \* the delays handed out since the socket was last ready
    rsLog,           \* history: each strategy answer, and <<"ready", 0>> at each connect
    \* ---- MigrationRegistry ----
    migrations,      \* this.migrations: the registered migrations, in insertion order
    regErr,          \* what the last register / registerMany call threw, or "none"
    \* ---- executeWithConcurrency / batchProcess / batchMapWithRetry ----
    bcall,           \* the call: [fn, len, the options, st, err]
    nextTaskIndex,   \* let nextTaskIndex
    shouldStop,      \* let shouldStop
    completedTasks,  \* let completed
    results,         \* const results = new Array(tasks.length): index -> value, or Hole
    errors,          \* const errors: the { index, error } pushed so far
    workers,         \* worker -> [pc, index]: where each worker() stands
    taskSt,          \* index -> state of the promise returned by tasks[index]()
    retry,           \* index -> [attempt, currentDelay, sleeping] of its retry loop
    invocations,     \* history: index -> how often the task (the mapper) was invoked
    waits,           \* history: index -> the delays its retry loop has slept
    returned,        \* what the call's promise resolved with, or NotReturned
    \* ---- processBatches, randomString ----
    pbatch,          \* the processBatches call: [st, len, batchSize, i, batchIndex, results, invoked, err]
    rstring          \* the randomString call: [st, length, characters, out, err]

pcVars == <<maxAge, cache, expirationTime, now, promises, timers, calls, delivered,
            clears, lastFailure>>

mxVars == <<ttl, mxNow, mutexMap, cleanupTimers, nextMutex, holder, waitq, task, lastUse,
            gets>>

mgVars == <<runningMigrations, completed, mcall, orphans>>

rdVars == <<store, rcall>>

rsVars == <<rsConn, rsRetries, rsDelays, rsLog>>

rgVars == <<migrations, regErr>>

btVars == <<bcall, nextTaskIndex, shouldStop, completedTasks, results, errors, workers,
            taskSt, retry, invocations, waits, returned>>

utVars == <<pbatch, rstring>>

vars == <<pcVars, mxVars, mgVars, rdVars, rsVars, rgVars, btVars, utVars>>

\* a step of one component leaves the other components alone
OthersIdlePC == UNCHANGED <<mxVars, mgVars, rdVars, rsVars, rgVars, btVars, utVars>>
OthersIdleMx == UNCHANGED <<pcVars, mgVars, rdVars, rsVars, rgVars, btVars, utVars>>
OthersIdleMg == UNCHANGED <<pcVars, mxVars, rdVars, rsVars, rgVars, btVars, utVars>>
OthersIdleRd == UNCHANGED <<pcVars, mxVars, mgVars, rsVars, rgVars, btVars, utVars>>
OthersIdleRg == UNCHANGED <<pcVars, mxVars, mgVars, rdVars, rsVars, btVars, utVars>>
OthersIdleRs == UNCHANGED <<pcVars, mxVars, mgVars, rdVars, rgVars, btVars, utVars>>
OthersIdleBt == UNCHANGED <<pcVars, mxVars, mgVars, rdVars, rsVars, rgVars, utVars>>
OthersIdleUt == UNCHANGED <<pcVars, mxVars, mgVars, rdVars, rsVars, rgVars, btVars>>

-----------------------------------------------------------------------------
(* Bounds of the model *)

MaxCalls == 3      \* get() calls per behaviour
MaxTime == 2       \* clock ticks after Epoch
MaxClears == 1     \* explicit clear() calls per behaviour
Epoch == 2         \* clock value at construction (Date.now() is far above |maxAge|)

MaxTasks == 2      \* callers of the mutex manager per behaviour
MaxMutexes == 2    \* Mutex objects created per behaviour
MaxMxTime == 2     \* clock ticks of the mutex manager's clock
MaxGets == 2       \* direct getMutex() calls per behaviour

MaxRuns == 2       \* concurrent callers of run() / rollback()
MaxSeq == 2        \* calls made one after the other by the sequential caller

MaxRedisCalls == 2 \* get / set / delete calls on the Redis cache manager per behaviour

MaxConnects == 2   \* times the Redis socket becomes ready per behaviour

MaxBatch == 2      \* length of the list given to registerMany

MaxLen == 4        \* length of the task list given to executeWithConcurrency
MaxConc == 3       \* largest concurrency given to executeWithConcurrency
MaxItems == 3      \* length of the list given to batchProcess / batchMapWithRetry
MaxWorkers == 2    \* largest concurrency option given to batchProcess / batchMapWithRetry
MaxRetryOpt == 2   \* largest maxRetries option given to batchMapWithRetry
MaxChunk == 2      \* largest batchSize, and items.length - 1, given to processBatches
MaxStr == 2        \* largest length given to randomString

\* null of the two nullable fields (promise ids and times are never negative)
Null == -1

\* maxAge values tried by the constructor: negative, zero, positive
MaxAges == {-1, 0, 1}

\* ttl values tried by the MutexManager constructor
Ttls == {1, 2}

\* Strings are sequences of tokens (a token is one character, or the word
\* "mutex" or "user", whose letters occur in no other token)
StringKey(s) == [type |-> "string", str |-> s, entries |-> <<>>]

\* a record key: its entries <<field, value>> in insertion order
RecordKey(es) == [type |-> "record", str |-> <<>>, entries |-> es]

\* the keys passed to the manager: a plain string, the record {a: "1", b: "2"}
\* in its two insertion orders, and the record {a: "1-b-2"}, whose value holds
\* hyphens
RawKeys ==
    { StringKey(<<"user", "-", "1">>),
      RecordKey(<< <<(<<"a">>), (<<"1">>)>>, <<(<<"b">>), (<<"2">>)>> >>),
      RecordKey(<< <<(<<"b">>), (<<"2">>)>>, <<(<<"a">>), (<<"1">>)>> >>),
      RecordKey(<< <<(<<"a">>), (<<"1", "-", "b", "-", "2">>)>> >>) }

Tasks == 1..MaxTasks

\* the registered migrations: whether each defines validate and down
Registry ==
    [m \in {"m1", "m2"} |->
        [validate |-> (m = "m1"), down |-> (m = "m1")]]

Names == DOMAIN Registry
Runs == 1..MaxRuns

\* the call slot of the sequential caller
Solo == 0
Calls == {Solo} \cup Runs

\* cache keys of the one RedisCacheManager (a fixed prefix), and JavaScript values
RedisKeys == {"a", "b"}
JSValues == {"A", "B", "NaN", "null", "undefined"}
RCalls == 1..MaxRedisCalls
Mutexes == 1..MaxMutexes

-----------------------------------------------------------------------------
(* PromiseCache *)

\* JavaScript truthiness of a number | null field: null and 0 are falsy
Truthy(x) == x # Null /\ x # 0

\* the expiry comparison made inclusive (now <= expirationTime)
CacheHitInclusive(c, e, t) == c # Null /\ (~Truthy(e) \/ (Truthy(e) /\ t <= e))

\* promise.ts 12-16: the condition under which get() returns the stored promise
CacheHit(c, e, t) == c # Null /\ (~Truthy(e) \/ (Truthy(e) /\ t < e))

\* Node clamps a setTimeout delay below 1 ms to 1 ms
TimerDelay(d) == IF d < 1 THEN 1 ELSE d

\* state of the promise stored in the cache ("none" when the cache is empty)
StateOf(c) == IF c = Null THEN "none" ELSE promises[c].st

\* the latest promise created by a get() so far (Null when there is none)
LatestGen ==
    LET made == {i \in 1..Len(calls) : calls[i].invoked}
    IN  IF made = {} THEN Null ELSE CHOOSE i \in made : \A k \in made : k <= i

\* promise.ts 17: a get() that returns the stored promise does not call the generator
HitInvokes == FALSE

\* promise.ts 9-18: get() finds a usable stored promise and returns it
GetHit ==
    /\ Len(calls) < MaxCalls
    /\ CacheHit(cache, expirationTime, now)
    /\ calls' = Append(calls, [promise |-> cache, invoked |-> HitInvokes])
    /\ lastFailure' = "none"
    /\ UNCHANGED <<maxAge, cache, expirationTime, now, promises, timers, delivered, clears>>
    /\ OthersIdlePC

\* promise.ts 20-32: get() invokes the generator, which returns a promise;
\* the async function suspends at the await and its promise is stored
GetGenerate ==
    /\ Len(calls) < MaxCalls
    /\ ~CacheHit(cache, expirationTime, now)
    /\ LET id == Len(calls) + 1 IN
        /\ calls' = Append(calls, [promise |-> id, invoked |-> TRUE])
        /\ promises' = [promises EXCEPT ![id] =
                            [gen |-> "pending", st |-> "pending", doneAt |-> Null]]
        /\ cache' = id
    /\ lastFailure' = "none"
    /\ UNCHANGED <<maxAge, expirationTime, now, timers, delivered, clears>>
    /\ OthersIdlePC

\* promise.ts 20-32 with a generator whose call throws: the catch block runs
\* clear() synchronously inside the async function, and only then is the
\* (already rejected) promise assigned to this.cache
GetGeneratorThrows ==
    /\ Len(calls) < MaxCalls
    /\ ~CacheHit(cache, expirationTime, now)
    /\ LET id == Len(calls) + 1 IN
        /\ calls' = Append(calls, [promise |-> id, invoked |-> TRUE])
        /\ promises' = [promises EXCEPT ![id] =
                            [gen |-> "threw", st |-> "err", doneAt |-> now]]
        /\ cache' = id
    /\ expirationTime' = Null
    /\ lastFailure' = "failed"
    /\ UNCHANGED <<maxAge, now, timers, delivered, clears>>
    /\ OthersIdlePC

Settled == {p \in 1..MaxCalls : promises[p].st \in {"ok", "err"}}

\* Timers and I/O completions are macrotasks: the event loop runs one only after
\* the microtask queue has drained, that is after every settled promise has
\* reached its awaiters. Synchronous code (get, clear) can run before that.
MicrotasksDrained == Settled = delivered

\* promise.ts 22-25: the generator's promise fulfils; the async function resumes
GeneratorResolves(p) ==
    /\ MicrotasksDrained
    /\ promises[p].st = "pending"
    /\ promises' = [promises EXCEPT ![p] =
                        [gen |-> "fulfilled", st |-> "ok", doneAt |-> now]]
    /\ expirationTime' = now + maxAge
    /\ timers' = Append(timers, now + TimerDelay(maxAge))
    /\ UNCHANGED <<maxAge, cache, now, calls, delivered, clears, lastFailure>>
    /\ OthersIdlePC

\* a catch block that swallows the error instead of rethrowing it
RejectionSwallowed == "ok"

\* promise.ts 28: the catch block rethrows, so the async function's promise rejects
RejectionOutcome == "err"

\* promise.ts 26-29: the generator's promise rejects; catch clears and rethrows
GeneratorRejects(p) ==
    /\ MicrotasksDrained
    /\ promises[p].st = "pending"
    /\ promises' = [promises EXCEPT ![p] =
                        [gen |-> "rejected", st |-> RejectionOutcome, doneAt |-> now]]
    /\ cache' = Null
    /\ expirationTime' = Null
    /\ lastFailure' = "failed"
    /\ UNCHANGED <<maxAge, now, timers, calls, delivered, clears>>
    /\ OthersIdlePC

\* the outcome of promise p: <<"ok", p>> is the value produced by the generator
\* of the p-th call, <<"err", p>> the error it failed with
Outcome(p) == <<promises[p].st, p>>

\* what the caller of the i-th get() has received so far
Result(i) ==
    IF calls[i].promise \in delivered THEN Outcome(calls[i].promise) ELSE <<"none", 0>>

\* the microtask queue drains: every settled promise reaches its awaiters
DrainMicrotasks ==
    /\ ~MicrotasksDrained
    /\ delivered' = Settled
    /\ lastFailure' = IF lastFailure = "failed" THEN "delivered" ELSE lastFailure
    /\ UNCHANGED <<maxAge, cache, expirationTime, now, promises, timers, calls, clears>>
    /\ OthersIdlePC

\* promise.ts 35-38: clear() called by the user
Clear ==
    /\ clears < MaxClears
    /\ cache' = Null
    /\ expirationTime' = Null
    /\ clears' = clears + 1
    /\ UNCHANGED <<maxAge, now, promises, timers, calls, delivered, lastFailure>>
    /\ OthersIdlePC

\* promise.ts 24: an expiry timer fires. All timers of one cache have the same
\* delay, so they fire in scheduling order, at or after their due time.
TimerFires ==
    /\ MicrotasksDrained
    /\ timers # <<>>
    /\ now >= Head(timers)
    /\ cache' = Null
    /\ expirationTime' = Null
    /\ timers' = Tail(timers)
    /\ UNCHANGED <<maxAge, now, promises, calls, delivered, clears, lastFailure>>
    /\ OthersIdlePC

Tick ==
    /\ MicrotasksDrained
    /\ now < Epoch + MaxTime
    /\ now' = now + 1
    /\ UNCHANGED <<maxAge, cache, expirationTime, promises, timers, calls, delivered,
                   clears, lastFailure>>
    /\ OthersIdlePC

\* promise.ts 3-7: a new PromiseCache(maxAge)
InitPC ==
    /\ maxAge \in MaxAges
    /\ cache = Null
    /\ expirationTime = Null
    /\ now = Epoch
    /\ promises = [p \in 1..MaxCalls |-> [gen |-> "none", st |-> "none", doneAt |-> Null]]
    /\ timers = <<>>
    /\ calls = <<>>
    /\ delivered = {}
    /\ clears = 0
    /\ lastFailure = "none"

NextPC ==
    \/ GetHit
    \/ GetGenerate
    \/ GetGeneratorThrows
    \/ \E p \in 1..MaxCalls : GeneratorResolves(p)
    \/ \E p \in 1..MaxCalls : GeneratorRejects(p)
    \/ DrainMicrotasks
    \/ Clear
    \/ TimerFires
    \/ Tick

-----------------------------------------------------------------------------
(* MutexManager over async-mutex *)

\* collation rank of a token
TokenRank(t) ==
    CASE t = "-" -> 0
      [] t = "1" -> 1
      [] t = "2" -> 2
      [] t = "a" -> 3
      [] t = "b" -> 4
      [] t = "mutex" -> 5
      [] OTHER -> 6

\* part_003 38: a.localeCompare(b) < 0, on token sequences
RECURSIVE ComesBefore(_, _)
ComesBefore(a, b) ==
    IF b = <<>> THEN FALSE
    ELSE IF a = <<>> THEN TRUE
    ELSE IF TokenRank(Head(a)) # TokenRank(Head(b))
         THEN TokenRank(Head(a)) < TokenRank(Head(b))
         ELSE ComesBefore(Tail(a), Tail(b))

\* part_003 38: Array.prototype.sort by field name (stable): insertion of one
\* entry into a sorted list, and the sort
RECURSIVE InsertEntry(_, _)
InsertEntry(e, sorted) ==
    IF sorted = <<>> THEN <<e>>
    ELSE IF ComesBefore(e[1], Head(sorted)[1])
         THEN <<e>> \o sorted
         ELSE <<Head(sorted)>> \o InsertEntry(e, Tail(sorted))

\* no sort: the entries stay in insertion order
Unsorted(es) == es

RECURSIVE SortEntries(_)
SortEntries(es) ==
    IF es = <<>> THEN <<>>
    ELSE InsertEntry(es[Len(es)], SortEntries(SubSeq(es, 1, Len(es) - 1)))

\* part_003 39-40: .map(([k, v]) => `${k}-${v}`).join('-')
RECURSIVE JoinEntries(_)
JoinEntries(es) ==
    IF es = <<>> THEN <<>>
    ELSE Head(es)[1] \o <<"-">> \o Head(es)[2]
            \o (IF Len(es) > 1 THEN <<"-">> ELSE <<>>) \o JoinEntries(Tail(es))

\* part_003 34-41: normalizeKey(key)
NormalizeKey(key) ==
    IF key.type = "string"
    THEN key.str
    ELSE <<"mutex", "-">> \o JoinEntries(SortEntries(key.entries))

\* the keys of mutexMap and cleanupTimers
Keys == {NormalizeKey(r) : r \in RawKeys}

\* part_003 43-53: getMutex(key) creates the key's Mutex when the map has none
\* and restarts the key's cleanup timer; the values of mutexMap, nextMutex and
\* cleanupTimers after the call
MapAfterGet(k) ==
    IF mutexMap[k] = Null THEN [mutexMap EXCEPT ![k] = nextMutex + 1] ELSE mutexMap

CountAfterGet(k) == IF mutexMap[k] = Null THEN nextMutex + 1 ELSE nextMutex

\* a resetCleanupTimer that leaves a running countdown alone
TimersKept(k) ==
    IF cleanupTimers[k] # Null THEN cleanupTimers
    ELSE [cleanupTimers EXCEPT ![k] = mxNow + TimerDelay(ttl)]

\* part_003 21-32: resetCleanupTimer(key)
TimersAfterReset(k) == [cleanupTimers EXCEPT ![k] = mxNow + TimerDelay(ttl)]

CanGetMutex(k) == mutexMap[k] # Null \/ nextMutex < MaxMutexes

\* part_003 43-53: getMutex(key) called directly
GetMutex(r) ==
    LET k == NormalizeKey(r) IN
    /\ Len(gets) < MaxGets
    /\ CanGetMutex(k)
    /\ mutexMap' = MapAfterGet(k)
    /\ nextMutex' = CountAfterGet(k)
    /\ cleanupTimers' = TimersAfterReset(k)
    /\ lastUse' = [lastUse EXCEPT ![k] = mxNow]
    /\ gets' = Append(gets, [raw |-> r, mutex |-> MapAfterGet(k)[k]])
    /\ UNCHANGED <<ttl, mxNow, holder, waitq, task>>
    /\ OthersIdleMx

\* part_003 55-61: runExclusive(key, fn): getMutex, then Mutex.runExclusive, whose
\* acquire() takes the free lock at once or queues the caller
RunExclusive(t, r) ==
    LET k == NormalizeKey(r) IN
    /\ task[t].pc = "idle"
    /\ CanGetMutex(k)
    /\ mutexMap' = MapAfterGet(k)
    /\ nextMutex' = CountAfterGet(k)
    /\ cleanupTimers' = TimersAfterReset(k)
    /\ lastUse' = [lastUse EXCEPT ![k] = mxNow]
    /\ LET m == MapAfterGet(k)[k] IN
        IF holder[m] = Null
        THEN /\ holder' = [holder EXCEPT ![m] = t]
             /\ task' = [task EXCEPT ![t] = [pc |-> "acquired", key |-> k, mutex |-> m]]
             /\ UNCHANGED waitq
        ELSE /\ waitq' = [waitq EXCEPT ![m] = Append(@, t)]
             /\ task' = [task EXCEPT ![t] = [pc |-> "waiting", key |-> k, mutex |-> m]]
             /\ UNCHANGED holder
    /\ UNCHANGED <<ttl, mxNow, gets>>
    /\ OthersIdleMx

\* Mutex.runExclusive: the lock is held and fn starts
StartFn(t) ==
    /\ task[t].pc = "acquired"
    /\ task' = [task EXCEPT ![t].pc = "running"]
    /\ UNCHANGED <<ttl, mxNow, mutexMap, cleanupTimers, nextMutex, holder, waitq, lastUse,
                   gets>>
    /\ OthersIdleMx

\* Mutex.runExclusive: fn settles and the lock is released to the first waiter
FinishFn(t) ==
    /\ task[t].pc = "running"
    /\ LET m == task[t].mutex IN
        IF waitq[m] = <<>>
        THEN /\ holder' = [holder EXCEPT ![m] = Null]
             /\ task' = [task EXCEPT ![t].pc = "done"]
             /\ UNCHANGED waitq
        ELSE /\ holder' = [holder EXCEPT ![m] = Head(waitq[m])]
             /\ waitq' = [waitq EXCEPT ![m] = Tail(@)]
             /\ task' = [task EXCEPT ![t].pc = "done", ![Head(waitq[m])].pc = "acquired"]
    /\ UNCHANGED <<ttl, mxNow, mutexMap, cleanupTimers, nextMutex, lastUse, gets>>
    /\ OthersIdleMx

\* part_003 63-70: waitIfLocked(key): getMutex, then wait while the mutex is locked
WaitIfLocked(t, r) ==
    LET k == NormalizeKey(r) IN
    /\ task[t].pc = "idle"
    /\ CanGetMutex(k)
    /\ mutexMap' = MapAfterGet(k)
    /\ nextMutex' = CountAfterGet(k)
    /\ cleanupTimers' = TimersAfterReset(k)
    /\ lastUse' = [lastUse EXCEPT ![k] = mxNow]
    /\ LET m == MapAfterGet(k)[k] IN
        task' = [task EXCEPT ![t] =
                    [pc |-> (IF holder[m] = Null THEN "done" ELSE "unlockWait"),
                     key |-> k, mutex |-> m]]
    /\ UNCHANGED <<ttl, mxNow, holder, waitq, gets>>
    /\ OthersIdleMx

\* part_003 68: waitForUnlock() resolves once the mutex is unlocked
Unlocked(t) ==
    /\ task[t].pc = "unlockWait"
    /\ holder[task[t].mutex] = Null
    /\ task' = [task EXCEPT ![t].pc = "done"]
    /\ UNCHANGED <<ttl, mxNow, mutexMap, cleanupTimers, nextMutex, holder, waitq, lastUse,
                   gets>>
    /\ OthersIdleMx

\* part_003 12-19, 27-29: the cleanup timer of a key fires and runs cleanup(key)
CleanupFires(k) ==
    /\ cleanupTimers[k] # Null
    /\ mxNow >= cleanupTimers[k]
    /\ mutexMap' = [mutexMap EXCEPT ![k] = Null]
    /\ cleanupTimers' = [cleanupTimers EXCEPT ![k] = Null]
    /\ lastUse' = [lastUse EXCEPT ![k] = Null]
    /\ UNCHANGED <<ttl, mxNow, nextMutex, holder, waitq, task, gets>>
    /\ OthersIdleMx

MxTick ==
    /\ mxNow < MaxMxTime
    /\ mxNow' = mxNow + 1
    /\ UNCHANGED <<ttl, mutexMap, cleanupTimers, nextMutex, holder, waitq, task, lastUse,
                   gets>>
    /\ OthersIdleMx

\* part_003 3-10: new MutexManager(ttl)
InitMx ==
    /\ ttl \in Ttls
    /\ mxNow = 0
    /\ mutexMap = [k \in Keys |-> Null]
    /\ cleanupTimers = [k \in Keys |-> Null]
    /\ nextMutex = 0
    /\ holder = [m \in Mutexes |-> Null]
    /\ waitq = [m \in Mutexes |-> <<>>]
    /\ task = [t \in Tasks |-> [pc |-> "idle", key |-> <<>>, mutex |-> Null]]
    /\ lastUse = [k \in Keys |-> Null]
    /\ gets = <<>>

\* the callers of runExclusive and waitIfLocked, the cleanup timers, the clock
NextMx ==
    \/ \E t \in Tasks, r \in RawKeys : RunExclusive(t, r)
    \/ \E t \in Tasks : StartFn(t)
    \/ \E t \in Tasks : FinishFn(t)
    \/ \E t \in Tasks, r \in RawKeys : WaitIfLocked(t, r)
    \/ \E t \in Tasks : Unlocked(t)
    \/ \E k \in Keys : CleanupFires(k)
    \/ MxTick

\* the callers of getMutex, the cleanup timers, the clock
NextKeys ==
    \/ \E r \in RawKeys : GetMutex(r)
    \/ \E k \in Keys : CleanupFires(k)
    \/ MxTick

-----------------------------------------------------------------------------
(* MigrationRunner *)

\* registry.ts 68-70: getAll() lists the migrations in registration order
RegOrder == <<"m1", "m2">>

IdleCall == [op |-> "none", name |-> "", pc |-> "idle", dryRun |-> FALSE,
             skip |-> TRUE, timeout |-> FALSE, cont |-> FALSE, results |-> <<>>,
             err |-> "none", made |-> 0]

\* a call slot that can start a call: the concurrent callers make one call each,
\* the sequential caller makes its next call when the previous one has settled
Startable(c) ==
    /\ mcall[c].pc \in {"idle", "resolved", "rejected"}
    /\ mcall[c].made < (IF c = Solo THEN MaxSeq ELSE 1)

\* a new call record of slot c
Started(c, op, n, pc, dry, skip, tmo, cont) ==
    [op |-> op, name |-> n, pc |-> pc, dryRun |-> dry, skip |-> skip, timeout |-> tmo,
     cont |-> cont, results |-> <<>>, err |-> "none", made |-> mcall[c].made + 1]

\* a catch block that never rethrows
NeverRethrows(rec) == FALSE

\* runner.ts 78-80: the catch block of runPending rethrows unless continueOnError
Rethrows(rec) == ~rec.cont

\* runner.ts 64-81: the run() or rollback() of a call rejects with error e: a
\* direct call rejects; runPending records a 'failed' result and rethrows, or
\* goes on with the next migration when continueOnError is set
RejectedRec(rec, e) ==
    IF rec.op = "pending"
    THEN [rec EXCEPT !.results = Append(@, [name |-> rec.name, status |-> "failed"]),
                     !.pc = IF Rethrows(rec) THEN "rejected" ELSE "next",
                     !.err = IF Rethrows(rec) THEN e ELSE "none"]
    ELSE [rec EXCEPT !.pc = "rejected", !.err = e]

Rejected(c, e) == [mcall EXCEPT ![c] = RejectedRec(mcall[c], e)]

\* runner.ts 62-63, 182, 269: run() or rollback() resolves: a direct call
\* resolves; runPending pushes the result and goes on
Resolved(c, status) ==
    IF mcall[c].op = "pending"
    THEN [mcall EXCEPT ![c].results = Append(@, [name |-> mcall[c].name, status |-> status]),
                       ![c].pc = "next"]
    ELSE [mcall EXCEPT ![c].pc = "resolved"]

\* runner.ts 105-115: run() up to its first await, on the call record: the
\* running check, then the call of migration.isCompleted
RunEntry(rec) ==
    IF rec.name \in runningMigrations
    THEN RejectedRec(rec, "AlreadyRunning")
    ELSE [rec EXCEPT !.pc = "isCompleted"]

\* runner.ts 101-115: run(name, options) called directly
RunCall(c, n, dry, skip, tmo) ==
    /\ Startable(c)
    /\ mcall' = [mcall EXCEPT ![c] =
                    RunEntry(Started(c, "run", n, "idle", dry, skip, tmo, FALSE))]
    /\ UNCHANGED <<runningMigrations, completed, orphans>>
    /\ OthersIdleMg

\* runner.ts 133-159: after runningMigrations.add, the next await of run():
\* validate when the migration defines it, else up
AfterAdd(n) == IF Registry[n].validate THEN "validate" ELSE "up"

\* runner.ts 115-122: isCompleted resolves; run() rejects a completed migration
\* (unless dry run or skipCompleted is off) or adds the name and goes on
IsCompletedReturns(c) ==
    /\ mcall[c].pc = "isCompleted"
    /\ LET n == mcall[c].name IN
        IF mcall[c].skip /\ completed[n] /\ ~mcall[c].dryRun
        THEN /\ mcall' = Rejected(c, "AlreadyCompleted")
             /\ UNCHANGED runningMigrations
        ELSE /\ runningMigrations' = runningMigrations \cup {n}
             /\ mcall' = [mcall EXCEPT ![c].pc = AfterAdd(n)]
    /\ UNCHANGED <<completed, orphans>>
    /\ OthersIdleMg

\* runner.ts 115: the promise of isCompleted rejects: the await sits before the
\* try block, so run() rejects with that very error and the name was never added
IsCompletedRejects(c) ==
    /\ mcall[c].pc = "isCompleted"
    /\ mcall' = Rejected(c, "IsCompletedThrew")
    /\ UNCHANGED <<runningMigrations, completed, orphans>>
    /\ OthersIdleMg

\* a run() or rollback() without its finally block
FinallySkipped(n) == runningMigrations

\* runner.ts 197-199, 279-281: the finally block of run() and rollback() removes
\* the name from the running set
AfterFinally(n) == runningMigrations \ {n}

\* a catch block that calls markFailed in a dry run too
CatchMarksAlways(c) == TRUE

\* runner.ts 192: markFailed is called unless the run is a dry run
CatchMarks(c) == ~mcall[c].dryRun

\* runner.ts 183-199: the catch block of run() up to its await of markFailed
\* (skipped in a dry run), and the finally block when nothing is awaited
CatchRun(c, n, cause) ==
    IF CatchMarks(c)
    THEN /\ mcall' = [mcall EXCEPT ![c].pc = "markFailed", ![c].err = cause]
         /\ UNCHANGED runningMigrations
    ELSE /\ mcall' = Rejected(c, cause)
         /\ runningMigrations' = AfterFinally(n)

\* runner.ts 134-148: validate resolves, valid or not
ValidateReturns(c, valid) ==
    /\ mcall[c].pc = "validate"
    /\ IF valid
       THEN /\ mcall' = [mcall EXCEPT ![c].pc = "up"]
            /\ UNCHANGED runningMigrations
       ELSE CatchRun(c, mcall[c].name, "Execution:Validation")
    /\ UNCHANGED <<completed, orphans>>
    /\ OthersIdleMg

\* runner.ts 135, 183-199: the promise of validate rejects: the catch block
ValidateRejects(c) ==
    /\ mcall[c].pc = "validate"
    /\ CatchRun(c, mcall[c].name, "Execution:ValidateThrew")
    /\ UNCHANGED <<completed, orphans>>
    /\ OthersIdleMg

\* runner.ts 150-173: up settles; on success run() awaits markComplete (not in a
\* dry run), on failure it enters the catch block
UpSettles(c, ok) ==
    /\ mcall[c].pc = "up"
    /\ IF ok
       THEN IF mcall[c].dryRun
            THEN /\ mcall' = Resolved(c, "completed")
                 /\ runningMigrations' = AfterFinally(mcall[c].name)
            ELSE /\ mcall' = [mcall EXCEPT ![c].pc = "markComplete"]
                 /\ UNCHANGED runningMigrations
       ELSE CatchRun(c, mcall[c].name, "Execution:Up")
    /\ UNCHANGED <<completed, orphans>>
    /\ OthersIdleMg

\* a timer that resolves the race instead of rejecting it
TimerResolves == "resolve"

\* runner.ts 364-368: the timer of runWithTimeout rejects its promise
TimerSettlesRace == "reject"

\* runner.ts 151-156, 359-371: the timer of runWithTimeout fires before up or
\* down has settled: the race rejects with MigrationTimeoutError; the function
\* is not cancelled and keeps running
TimeoutFires(c) ==
    /\ mcall[c].timeout
    /\ mcall[c].pc \in {"up", "down"}
    /\ orphans' = Append(orphans, <<mcall[c].name, mcall[c].pc>>)
    /\ IF TimerSettlesRace = "resolve"
       THEN /\ mcall' = [mcall EXCEPT ![c].pc = "markComplete"]
            /\ UNCHANGED runningMigrations
       ELSE IF mcall[c].pc = "up"
       THEN CatchRun(c, mcall[c].name, "Execution:Timeout")
       ELSE /\ mcall' = Rejected(c, "Rollback:Timeout")
            /\ runningMigrations' = AfterFinally(mcall[c].name)
    /\ UNCHANGED completed
    /\ OthersIdleMg

\* an up or down that lost the race settles later, with or without success:
\* nothing is awaiting it
OrphanSettles(i) ==
    /\ i \in 1..Len(orphans)
    /\ orphans' = SubSeq(orphans, 1, i - 1) \o SubSeq(orphans, i + 1, Len(orphans))
    /\ UNCHANGED <<runningMigrations, completed, mcall>>
    /\ OthersIdleMg

\* runner.ts 172-182, 197-199: markComplete resolves; run() returns the result
\* and the finally block removes the name
MarkCompleteReturns(c) ==
    /\ mcall[c].pc = "markComplete"
    /\ completed' = [completed EXCEPT ![mcall[c].name] = TRUE]
    /\ mcall' = Resolved(c, "completed")
    /\ runningMigrations' = AfterFinally(mcall[c].name)
    /\ UNCHANGED orphans
    /\ OthersIdleMg

\* runner.ts 172, 183-199: the promise of markComplete rejects: the await is
\* inside the try block, so the catch block runs as it does for a failed up
MarkCompleteRejects(c) ==
    /\ mcall[c].pc = "markComplete"
    /\ CatchRun(c, mcall[c].name, "Execution:MarkCompleteThrew")
    /\ UNCHANGED <<completed, orphans>>
    /\ OthersIdleMg

\* runner.ts 192-199: markFailed resolves; run() throws MigrationExecutionError
\* and the finally block removes the name
MarkFailedReturns(c) ==
    /\ mcall[c].pc = "markFailed"
    /\ mcall' = Rejected(c, mcall[c].err)
    /\ runningMigrations' = AfterFinally(mcall[c].name)
    /\ UNCHANGED <<completed, orphans>>
    /\ OthersIdleMg

\* runner.ts 193, 197-199: the promise of markFailed rejects inside the catch
\* block: run() rejects with that error instead of MigrationExecutionError,
\* and the finally block removes the name
MarkFailedRejects(c) ==
    /\ mcall[c].pc = "markFailed"
    /\ mcall' = Rejected(c, "MarkFailedThrew")
    /\ runningMigrations' = AfterFinally(mcall[c].name)
    /\ UNCHANGED <<completed, orphans>>
    /\ OthersIdleMg

\* runner.ts 205-247: rollback(name, options) up to its first await: the down
\* check, the running check, runningMigrations.add and the call of down
RollbackCall(c, n, dry, tmo) ==
    /\ Startable(c)
    /\ LET started == Started(c, "rollback", n, "down", dry, TRUE, tmo, FALSE) IN
        IF ~Registry[n].down
        THEN /\ mcall' = [mcall EXCEPT ![c] =
                            [started EXCEPT !.pc = "rejected", !.err = "NotRollbackable"]]
             /\ UNCHANGED runningMigrations
        ELSE IF n \in runningMigrations
        THEN /\ mcall' = [mcall EXCEPT ![c] =
                            [started EXCEPT !.pc = "rejected", !.err = "AlreadyRunning"]]
             /\ UNCHANGED runningMigrations
        ELSE /\ mcall' = [mcall EXCEPT ![c] = started]
             /\ runningMigrations' = runningMigrations \cup {n}
    /\ UNCHANGED <<completed, orphans>>
    /\ OthersIdleMg

\* runner.ts 246-282: down settles; on success rollback() awaits markRollback
\* (not in a dry run), on failure it throws MigrationRollbackError; finally
DownSettles(c, ok) ==
    /\ mcall[c].pc = "down"
    /\ IF ok /\ ~mcall[c].dryRun
       THEN /\ mcall' = [mcall EXCEPT ![c].pc = "markRollback"]
            /\ UNCHANGED runningMigrations
       ELSE /\ mcall' = IF ok THEN Resolved(c, "rolled-back")
                        ELSE Rejected(c, "Rollback:Down")
            /\ runningMigrations' = AfterFinally(mcall[c].name)
    /\ UNCHANGED <<completed, orphans>>
    /\ OthersIdleMg

\* runner.ts 265-282: markRollback resolves; rollback() returns; finally
MarkRollbackReturns(c) ==
    /\ mcall[c].pc = "markRollback"
    /\ completed' = [completed EXCEPT ![mcall[c].name] = FALSE]
    /\ mcall' = Resolved(c, "rolled-back")
    /\ runningMigrations' = AfterFinally(mcall[c].name)
    /\ UNCHANGED orphans
    /\ OthersIdleMg

\* runner.ts 266, 270-281: the promise of markRollback rejects: the catch block
\* throws MigrationRollbackError and the finally block removes the name
MarkRollbackRejects(c) ==
    /\ mcall[c].pc = "markRollback"
    /\ mcall' = Rejected(c, "Rollback:MarkRollbackThrew")
    /\ runningMigrations' = AfterFinally(mcall[c].name)
    /\ UNCHANGED <<completed, orphans>>
    /\ OthersIdleMg

\* runner.ts 36-45: runPending(options) called: the list of migrations is taken
\* and the loop starts
PendingCall(c, dry, skip, cont, tmo) ==
    /\ Startable(c)
    /\ mcall' = [mcall EXCEPT ![c] = Started(c, "pending", "", "next", dry, skip, tmo, cont)]
    /\ UNCHANGED <<runningMigrations, completed, orphans>>
    /\ OthersIdleMg

\* runner.ts 45-62, 84-95: the head of the loop: with every migration processed
\* runPending returns the results; else it takes the next migration in
\* registration order and awaits its isCompleted (skipCompleted) or run()
PendingNext(c) ==
    /\ mcall[c].pc = "next"
    /\ IF Len(mcall[c].results) = Len(RegOrder)
       THEN mcall' = [mcall EXCEPT ![c].pc = "resolved"]
       ELSE LET rec == [mcall[c] EXCEPT !.name = RegOrder[Len(mcall[c].results) + 1]] IN
            IF rec.skip
            THEN mcall' = [mcall EXCEPT ![c] = [rec EXCEPT !.pc = "pendingIsCompleted"]]
            ELSE mcall' = [mcall EXCEPT ![c] = RunEntry(rec)]
    /\ UNCHANGED <<runningMigrations, completed, orphans>>
    /\ OthersIdleMg

\* runner.ts 48-62: isCompleted resolves in runPending: a completed migration is
\* recorded as 'skipped', any other is handed to run()
PendingIsCompletedReturns(c) ==
    /\ mcall[c].pc = "pendingIsCompleted"
    /\ IF completed[mcall[c].name]
       THEN mcall' = Resolved(c, "skipped")
       ELSE mcall' = [mcall EXCEPT ![c] = RunEntry(mcall[c])]
    /\ UNCHANGED <<runningMigrations, completed, orphans>>
    /\ OthersIdleMg

\* runner.ts 48, 64-81: the promise of isCompleted rejects in runPending: the
\* await is inside the try block of the loop
PendingIsCompletedRejects(c) ==
    /\ mcall[c].pc = "pendingIsCompleted"
    /\ mcall' = Rejected(c, "IsCompletedThrew")
    /\ UNCHANGED <<runningMigrations, completed, orphans>>
    /\ OthersIdleMg

\* runner.ts 26-31: a new MigrationRunner over the registry; the store may
\* already record migrations as completed
InitMg ==
    /\ runningMigrations = {}
    /\ completed \in [Names -> BOOLEAN]
    /\ mcall = [c \in Calls |-> IdleCall]
    /\ orphans = <<>>

\* concurrent callers of run() and rollback(), without the timeout option
NextMg ==
    \/ \E c \in Runs, n \in Names, dry \in BOOLEAN, skip \in BOOLEAN :
          RunCall(c, n, dry, skip, FALSE)
    \/ \E c \in Runs : IsCompletedReturns(c)
    \/ \E c \in Runs, valid \in BOOLEAN : ValidateReturns(c, valid)
    \/ \E c \in Runs, ok \in BOOLEAN : UpSettles(c, ok)
    \/ \E c \in Runs : MarkCompleteReturns(c)
    \/ \E c \in Runs : MarkFailedReturns(c)
    \/ \E c \in Runs, n \in Names, dry \in BOOLEAN : RollbackCall(c, n, dry, FALSE)
    \/ \E c \in Runs, ok \in BOOLEAN : DownSettles(c, ok)
    \/ \E c \in Runs : MarkRollbackReturns(c)
    \/ \E c \in Runs : IsCompletedRejects(c)
    \/ \E c \in Runs : ValidateRejects(c)
    \/ \E c \in Runs : MarkCompleteRejects(c)
    \/ \E c \in Runs : MarkFailedRejects(c)
    \/ \E c \in Runs : MarkRollbackRejects(c)

\* one caller that makes its calls of run(), rollback() and runPending() one
\* after the other, with every option
NextRunner ==
    \/ \E n \in Names, dry \in BOOLEAN, skip \in BOOLEAN, tmo \in BOOLEAN :
          RunCall(Solo, n, dry, skip, tmo)
    \/ \E n \in Names, dry \in BOOLEAN, tmo \in BOOLEAN : RollbackCall(Solo, n, dry, tmo)
    \/ \E dry \in BOOLEAN, skip \in BOOLEAN, cont \in BOOLEAN, tmo \in BOOLEAN :
          PendingCall(Solo, dry, skip, cont, tmo)
    \/ PendingNext(Solo)
    \/ PendingIsCompletedReturns(Solo)
    \/ IsCompletedReturns(Solo)
    \/ \E valid \in BOOLEAN : ValidateReturns(Solo, valid)
    \/ \E ok \in BOOLEAN : UpSettles(Solo, ok)
    \/ TimeoutFires(Solo)
    \/ \E i \in 1..MaxSeq : OrphanSettles(i)
    \/ MarkCompleteReturns(Solo)
    \/ MarkFailedReturns(Solo)
    \/ \E ok \in BOOLEAN : DownSettles(Solo, ok)
    \/ MarkRollbackReturns(Solo)
    \/ IsCompletedRejects(Solo)
    \/ PendingIsCompletedRejects(Solo)
    \/ ValidateRejects(Solo)
    \/ MarkCompleteRejects(Solo)
    \/ MarkFailedRejects(Solo)
    \/ MarkRollbackRejects(Solo)

\* concurrent callers of run() and rollback() on the one migration that defines
\* validate and down: run() with and without dryRun and timeout (skipCompleted
\* at its default), rollback() with and without timeout, and every way out of a
\* call, rejections of the store included
NextExits ==
    \/ \E c \in Runs, dry \in BOOLEAN, tmo \in BOOLEAN : RunCall(c, "m1", dry, TRUE, tmo)
    \/ \E c \in Runs, tmo \in BOOLEAN : RollbackCall(c, "m1", FALSE, tmo)
    \/ \E c \in Runs : IsCompletedReturns(c)
    \/ \E c \in Runs : IsCompletedRejects(c)
    \/ \E c \in Runs, valid \in BOOLEAN : ValidateReturns(c, valid)
    \/ \E c \in Runs : ValidateRejects(c)
    \/ \E c \in Runs, ok \in BOOLEAN : UpSettles(c, ok)
    \/ \E c \in Runs : TimeoutFires(c)
    \/ \E i \in 1..MaxRuns : OrphanSettles(i)
    \/ \E c \in Runs : MarkCompleteReturns(c)
    \/ \E c \in Runs : MarkCompleteRejects(c)
    \/ \E c \in Runs : MarkFailedReturns(c)
    \/ \E c \in Runs : MarkFailedRejects(c)
    \/ \E c \in Runs, ok \in BOOLEAN : DownSettles(c, ok)
    \/ \E c \in Runs : MarkRollbackReturns(c)
    \/ \E c \in Runs : MarkRollbackRejects(c)

-----------------------------------------------------------------------------
(* RedisCacheManager over withRedis *)

\* no value under a key (client.get answers null)
NoText == <<>>

\* redis-client.ts 38: JSON.stringify(value): the JSON text of a value; NaN has
\* none of its own and is written as null
Stringify(v) == IF v = "NaN" THEN <<"json", "null">> ELSE <<"json", v>>

\* redis-client.ts 93: JSON.parse(cached)
Parse(text) == text[2]

\* redis-client.ts 38-44: the condition option of the SET command: with NX the
\* server writes only when the key holds nothing
SetCondition == "NX"

\* the Redis server executing SET key text <condition> EX ttl
ServerSet(k, text) ==
    IF SetCondition = "NX" /\ store[k] # NoText THEN store ELSE [store EXCEPT ![k] = text]

IdleRCall == [op |-> "none", key |-> "", pc |-> "idle", value |-> "", result |-> "",
              fetched |-> FALSE]

\* redis-client.ts 129-135, 73-86: set(key, value): withRedis with a static value
\* sends the SET command
SetCall(c, k, v) ==
    /\ rcall[c].pc = "idle"
    /\ rcall' = [rcall EXCEPT ![c] = [op |-> "set", key |-> k, pc |-> "setSent",
                                      value |-> v, result |-> "", fetched |-> FALSE]]
    /\ UNCHANGED store
    /\ OthersIdleRd

\* redis-client.ts 86-87, 106-108: the server executes the SET of a call and
\* the call resolves with the data
RedisSet(c) ==
    /\ rcall[c].pc = "setSent"
    /\ store' = ServerSet(rcall[c].key, Stringify(rcall[c].value))
    /\ rcall' = [rcall EXCEPT ![c].pc = "resolved", ![c].result = rcall[c].value]
    /\ OthersIdleRd

\* redis-client.ts 118-127, 79-90: get(key): withRedis with the callback sends GET
GetCall(c, k) ==
    /\ rcall[c].pc = "idle"
    /\ rcall' = [rcall EXCEPT ![c] = [op |-> "get", key |-> k, pc |-> "getSent",
                                      value |-> "", result |-> "", fetched |-> FALSE]]
    /\ UNCHANGED store
    /\ OthersIdleRd

\* redis-client.ts 90-101: the server answers the GET: a hit resolves with the
\* parsed text, a miss invokes the callback
RedisGet(c) ==
    /\ rcall[c].pc = "getSent"
    /\ IF store[rcall[c].key] # NoText
       THEN rcall' = [rcall EXCEPT ![c].pc = "resolved",
                                   ![c].result = Parse(store[rcall[c].key])]
       ELSE rcall' = [rcall EXCEPT ![c].pc = "callback", ![c].fetched = TRUE]
    /\ UNCHANGED store
    /\ OthersIdleRd

\* redis-client.ts 98-106: the callback resolves with the data v (kept in the
\* call's value field): null and undefined are returned as null without a write,
\* anything else is sent in a SET
CallbackReturns(c, v) ==
    /\ rcall[c].pc = "callback"
    /\ IF v \in {"null", "undefined"}
       THEN rcall' = [rcall EXCEPT ![c].pc = "resolved", ![c].value = v,
                                   ![c].result = "null"]
       ELSE rcall' = [rcall EXCEPT ![c].pc = "setSent", ![c].value = v]
    /\ UNCHANGED store
    /\ OthersIdleRd

\* redis-client.ts 137-141: delete(key) sends DEL
DeleteCall(c, k) ==
    /\ rcall[c].pc = "idle"
    /\ rcall' = [rcall EXCEPT ![c] = [op |-> "delete", key |-> k, pc |-> "delSent",
                                      value |-> "", result |-> "", fetched |-> FALSE]]
    /\ UNCHANGED store
    /\ OthersIdleRd

\* redis-client.ts 140: the server executes the DEL and the call resolves
RedisDel(c) ==
    /\ rcall[c].pc = "delSent"
    /\ store' = [store EXCEPT ![rcall[c].key] = NoText]
    /\ rcall' = [rcall EXCEPT ![c].pc = "resolved"]
    /\ OthersIdleRd

\* redis-client.ts 40-43: the EX expiration of a stored key elapses
Expire(k) ==
    /\ store[k] # NoText
    /\ store' = [store EXCEPT ![k] = NoText]
    /\ UNCHANGED rcall
    /\ OthersIdleRd

\* an empty Redis server and no call made yet
InitRd ==
    /\ store = [k \in RedisKeys |-> NoText]
    /\ rcall = [c \in RCalls |-> IdleRCall]

NextRd ==
    \/ \E c \in RCalls, k \in RedisKeys, v \in JSValues \ {"undefined"} : SetCall(c, k, v)
    \/ \E c \in RCalls : RedisSet(c)
    \/ \E c \in RCalls, k \in RedisKeys : GetCall(c, k)
    \/ \E c \in RCalls : RedisGet(c)
    \/ \E c \in RCalls, v \in JSValues : CallbackReturns(c, v)
    \/ \E c \in RCalls, k \in RedisKeys : DeleteCall(c, k)
    \/ \E c \in RCalls : RedisDel(c)
    \/ \E k \in RedisKeys : Expire(k)

-----------------------------------------------------------------------------
(* The Redis client socket and its reconnectStrategy *)

MS_IN_SECOND == 1000

\* redis-client.ts 27: the cap of the delay
MaxDelay == MS_IN_SECOND * 30

\* redis-client.ts 18: the retry count above which the strategy gives up
MaxRetries == 5

Min(a, b) == IF a < b THEN a ELSE b

\* redis-client.ts 16-29: reconnectStrategy(retries): the delay before the next
\* attempt, <<"delay", ms>>, or an Error to stop reconnecting, <<"error", 0>>
ReconnectStrategy(retries) ==
    IF retries > MaxRetries
    THEN <<"error", 0>>
    ELSE <<"delay", Min(retries * MS_IN_SECOND, MaxDelay)>>

\* the number of times the socket has become ready so far
Connects == Cardinality({i \in 1..Len(rsLog) : rsLog[i] = <<"ready", 0>>})

\* a connection attempt fails: the socket asks the strategy with the number of
\* retries made so far (0 at the first failure) and waits for the delay, or
\* closes when the strategy answers with an Error
ConnectFails ==
    /\ rsConn = "connecting"
    /\ LET r == ReconnectStrategy(rsRetries) IN
        /\ rsLog' = Append(rsLog, r)
        /\ IF r[1] = "error"
           THEN /\ rsConn' = "closed"
                /\ UNCHANGED <<rsRetries, rsDelays>>
           ELSE /\ rsConn' = "waiting"
                /\ rsRetries' = rsRetries + 1
                /\ rsDelays' = Append(rsDelays, r[2])
    /\ OthersIdleRs

\* the retry delay has elapsed: the socket tries to connect again
DelayElapses ==
    /\ rsConn = "waiting"
    /\ rsConn' = "connecting"
    /\ UNCHANGED <<rsRetries, rsDelays, rsLog>>
    /\ OthersIdleRs

\* a connection attempt succeeds
ConnectSucceeds ==
    /\ rsConn = "connecting"
    /\ rsConn' = "ready"
    /\ rsLog' = Append(rsLog, <<"ready", 0>>)
    /\ UNCHANGED <<rsRetries, rsDelays>>
    /\ OthersIdleRs

\* the connection is lost: the socket reconnects, counting retries from 0
ConnectionLost ==
    /\ rsConn = "ready"
    /\ Connects < MaxConnects
    /\ rsConn' = "connecting"
    /\ rsRetries' = 0
    /\ rsDelays' = <<>>
    /\ UNCHANGED rsLog
    /\ OthersIdleRs

\* redis-client.ts 13-31, 57: the client is created and connect() is called
InitRs ==
    /\ rsConn = "connecting"
    /\ rsRetries = 0
    /\ rsDelays = <<>>
    /\ rsLog = <<>>

NextRs ==
    \/ ConnectFails
    \/ DelayElapses
    \/ ConnectSucceeds
    \/ ConnectionLost

-----------------------------------------------------------------------------
(* MigrationRegistry *)

\* the migration objects offered for registration: two distinct objects per name
Offered == [name : {"m1", "m2", "m3"}, obj : {1, 2}]

\* lists of at most n migrations
RECURSIVE Batches(_)
Batches(n) ==
    IF n = 0 THEN {<<>>}
    ELSE Batches(n - 1) \cup {Append(b, m) : b \in {x \in Batches(n - 1) : Len(x) = n - 1},
                                              m \in Offered}

\* registry.ts 23: this.migrations.has(name)
Has(reg, name) == \E i \in 1..Len(reg) : reg[i].name = name

\* registry.ts 22-34: register(migration) on the map reg: the map after the
\* call and what the call threw
RegisterOne(reg, m) ==
    IF Has(reg, m.name)
    THEN [reg |-> reg, err |-> "Duplicate"]
    ELSE [reg |-> Append(reg, m), err |-> "none"]

\* registry.ts 39-43: registerMany(migrations): register each in turn; the
\* first throw ends the loop
RECURSIVE RegisterAll(_, _)
RegisterAll(reg, ms) ==
    IF ms = <<>> THEN [reg |-> reg, err |-> "none"]
    ELSE LET one == RegisterOne(reg, Head(ms)) IN
         IF one.err # "none" THEN one ELSE RegisterAll(one.reg, Tail(ms))

Register(m) ==
    /\ migrations' = RegisterOne(migrations, m).reg
    /\ regErr' = RegisterOne(migrations, m).err
    /\ OthersIdleRg

RegisterMany(ms) ==
    /\ migrations' = RegisterAll(migrations, ms).reg
    /\ regErr' = RegisterAll(migrations, ms).err
    /\ OthersIdleRg

\* registry.ts 89-91: clear()
ClearRegistry ==
    /\ migrations' = <<>>
    /\ regErr' = "none"
    /\ OthersIdleRg

\* registry.ts 48-56: get(name): the registered migration, or not found
GetMigration(reg, name) ==
    IF Has(reg, name)
    THEN reg[CHOOSE i \in 1..Len(reg) : reg[i].name = name]
    ELSE [name |-> "NotFound", obj |-> 0]

\* registry.ts 12-17: a new, empty registry
InitRg ==
    /\ migrations = <<>>
    /\ regErr = "none"

NextRg ==
    \/ \E m \in Offered : Register(m)
    \/ \E ms \in Batches(MaxBatch) : RegisterMany(ms)
    \/ ClearRegistry

-----------------------------------------------------------------------------
(* executeWithConcurrency, batchProcess, batchMapWithRetry (utils/runtime.ts) *)

\* the indexes of a task list of the largest length, and the workers (there are
\* never more workers than tasks)
Indices == 0..(MaxLen - 1)
WorkerIds == 1..MaxLen

\* an index of new Array(n) that was never assigned
Hole == <<"hole">>

\* the call's promise has not resolved
NotReturned == <<"none">>

\* what tasks[i]() resolves with (each task has a result of its own)
TaskValue(i) == <<"value", i>>

IdleBCall ==
    [fn |-> "none", len |-> 0, concurrency |-> 0, stopOnError |-> FALSE, taskTimeout |-> 0,
     batchDelay |-> 0, maxRetries |-> 0, retryDelay |-> 0, retryBackoff |-> 0,
     st |-> "idle", err |-> "none"]

\* the caller makes one call of one of the utilities
NoCallYet == bcall.st = "idle" /\ pbatch.st = "idle" /\ rstring.st = "idle"

\* a check that lets a concurrency of 0 pass
NegativeOnly(c) == c < 0

\* runtime.ts 240, 293: if (concurrency <= 0) throw
ConcurrencyInvalid(c) == c <= 0

\* one worker per task, whatever the concurrency
AllAtOnce(c, n) == n

\* runtime.ts 258, 348: const numWorkers = Math.min(concurrency, tasks.length)
NumWorkers(c, n) == Min(c, n)

\* runtime.ts 240-242, 293-295: the call rejects with the configuration error
\* before anything else is set up
ConfigRejected(fn, n, c) ==
    /\ bcall' = [IdleBCall EXCEPT !.fn = fn, !.len = n, !.concurrency = c,
                                  !.st = "rejected",
                                  !.err = "Concurrency must be greater than 0"]
    /\ UNCHANGED <<nextTaskIndex, shouldStop, completedTasks, results, errors, workers,
                   taskSt, retry, invocations, waits, returned>>

\* runtime.ts 251-259, 336-349: Array.from({ length: numWorkers }, () => worker()):
\* each worker() runs up to its first await, so worker w takes index w - 1 and
\* invokes that task, all within the call
StartWorkers(k) ==
    /\ workers' = [w \in WorkerIds |->
                      IF w <= k THEN [pc |-> "task", index |-> w - 1]
                                ELSE [pc |-> "none", index |-> 0]]
    /\ nextTaskIndex' = k
    /\ taskSt' = [i \in Indices |-> IF i < k THEN "running" ELSE "new"]
    /\ invocations' = [i \in Indices |-> IF i < k THEN 1 ELSE 0]

\* runtime.ts 253-254, 338-339: a worker takes the next index and invokes its
\* task; ts is taskSt with the settlement that resumed the worker
TakeNext(w, ts) ==
    /\ workers' = [workers EXCEPT ![w] = [pc |-> "task", index |-> nextTaskIndex]]
    /\ nextTaskIndex' = nextTaskIndex + 1
    /\ taskSt' = [ts EXCEPT ![nextTaskIndex] = "running"]
    /\ invocations' = [invocations EXCEPT ![nextTaskIndex] = @ + 1]

\* a worker stops taking tasks: it returns ("done"), rejects ("failed") or
\* sleeps between two tasks ("sleep")
WorkerTo(w, pc, ts) ==
    /\ workers' = [workers EXCEPT ![w].pc = pc]
    /\ taskSt' = ts
    /\ UNCHANGED <<nextTaskIndex, invocations>>

\* runtime.ts 261, 351: Promise.all(workers) fulfils when every worker has returned
AllReturned(ws) == \A w \in WorkerIds : ws[w].pc \in {"none", "done"}

\* runtime.ts 262: the results array of executeWithConcurrency, as the caller gets it
ResultArray(res, n) == [i \in 0..(n - 1) |-> res[i]]

\* runtime.ts 236-259: executeWithConcurrency(tasks, concurrency) with n tasks
ExecuteCall(n, c) ==
    /\ NoCallYet
    /\ IF ConcurrencyInvalid(c)
       THEN ConfigRejected("executeWithConcurrency", n, c)
       ELSE LET k == NumWorkers(c, n)
                call == [IdleBCall EXCEPT !.fn = "executeWithConcurrency", !.len = n,
                                          !.concurrency = c]
            IN  /\ StartWorkers(k)
                /\ bcall' = [call EXCEPT !.st = IF k = 0 THEN "resolved" ELSE "pending"]
                /\ returned' = IF k = 0 THEN ResultArray(results, n) ELSE returned
                /\ UNCHANGED <<shouldStop, completedTasks, results, errors, retry, waits>>
    /\ OthersIdleBt

\* runtime.ts 252-262: tasks[index]() settles and its worker resumes: on success
\* the result is stored at the task's index and the worker takes the next task
\* or returns; on failure the worker rejects, and with it Promise.all and the call
ExecuteTaskSettles(w, ok) ==
    /\ bcall.fn = "executeWithConcurrency"
    /\ workers[w].pc = "task"
    /\ LET i == workers[w].index
           ts == [taskSt EXCEPT ![i] = IF ok THEN "fulfilled" ELSE "rejected"]
       IN  IF ok
           THEN /\ results' = [results EXCEPT ![i] = TaskValue(i)]
                /\ IF nextTaskIndex < bcall.len
                   THEN TakeNext(w, ts)
                   ELSE WorkerTo(w, "done", ts)
                /\ IF bcall.st = "pending" /\ AllReturned(workers')
                   THEN /\ bcall' = [bcall EXCEPT !.st = "resolved"]
                        /\ returned' = ResultArray(results', bcall.len)
                   ELSE UNCHANGED <<bcall, returned>>
           ELSE /\ WorkerTo(w, "failed", ts)
                /\ bcall' = IF bcall.st = "pending"
                            THEN [bcall EXCEPT !.st = "rejected", !.err = "task error"]
                            ELSE bcall
                /\ UNCHANGED <<results, returned>>
    /\ UNCHANGED <<shouldStop, completedTasks, errors, retry, waits>>
    /\ OthersIdleBt

\* runtime.ts 354: results.filter((_, idx) => !errors.some((e) => e.index === idx)):
\* filter skips the indexes of the array that were never assigned
RECURSIVE FilterFrom(_, _, _, _)
FilterFrom(res, errs, idx, n) ==
    IF idx >= n THEN <<>>
    ELSE IF res[idx] = Hole \/ (\E k \in 1..Len(errs) : errs[k].index = idx)
    THEN FilterFrom(res, errs, idx + 1, n)
    ELSE <<res[idx]>> \o FilterFrom(res, errs, idx + 1, n)

\* runtime.ts 353-359: the BatchResult returned by batchProcess
BatchResultOf(res, errs, n) ==
    [results |-> FilterFrom(res, errs, 0, n),
     errors |-> errs,
     total |-> n,
     successful |-> n - Len(errs),
     failed |-> Len(errs)]

\* a loop head that ignores shouldStop
NeverStops(stop) == FALSE

\* runtime.ts 337: the worker loop of batchProcess ends when shouldStop is set
StopRequested(stop) == stop

\* runtime.ts 337-339: the head of the worker loop of batchProcess
LoopHead(w, ts, stop) ==
    IF nextTaskIndex < bcall.len /\ ~StopRequested(stop)
    THEN TakeNext(w, ts)
    ELSE WorkerTo(w, "done", ts)

\* runtime.ts 351-359: when the last worker has returned, batchProcess resolves
\* with the BatchResult
BatchSettles ==
    IF bcall.st = "pending" /\ AllReturned(workers')
    THEN /\ bcall' = [bcall EXCEPT !.st = "resolved"]
         /\ returned' = BatchResultOf(results', errors', bcall.len)
    ELSE UNCHANGED <<bcall, returned>>

\* runtime.ts 313-346: the await inside executeTask resumes worker w: on success
\* the result is stored and counted; on an error (the task rejected or timed
\* out) the catch block records it and sets shouldStop under stopOnError; then
\* the worker sleeps batchDelay when more tasks are left, or goes to the loop head
WorkerResumes(w, ok, error, ts) ==
    LET i == workers[w].index
        stop == shouldStop \/ (~ok /\ bcall.stopOnError)
    IN  /\ results' = IF ok THEN [results EXCEPT ![i] = TaskValue(i)] ELSE results
        /\ errors' = IF ok THEN errors ELSE Append(errors, [index |-> i, error |-> error])
        /\ completedTasks' = completedTasks + 1
        /\ shouldStop' = stop
        /\ IF bcall.batchDelay > 0 /\ nextTaskIndex < bcall.len
           THEN WorkerTo(w, "sleep", ts)
           ELSE LoopHead(w, ts, stop)
        /\ BatchSettles

\* runtime.ts 280-349: batchProcess(tasks, options) with n tasks; fn tells a
\* direct call from the one made by batchMapWithRetry
BatchStart(fn, n, opts) ==
    IF ConcurrencyInvalid(opts.concurrency)
    THEN ConfigRejected(fn, n, opts.concurrency)
    ELSE LET k == NumWorkers(opts.concurrency, n)
             call == [opts EXCEPT !.fn = fn, !.len = n]
         IN  /\ StartWorkers(k)
             /\ bcall' = [call EXCEPT !.st = IF k = 0 THEN "resolved" ELSE "pending"]
             /\ returned' = IF k = 0 THEN BatchResultOf(results, errors, n) ELSE returned
             /\ retry' = [i \in Indices |-> [attempt |-> 0, currentDelay |-> opts.retryDelay,
                                            sleeping |-> FALSE]]
             /\ UNCHANGED <<shouldStop, completedTasks, results, errors, waits>>

\* the options of a batchProcess call
BatchOptions(c, stop, tmo, delay) ==
    [IdleBCall EXCEPT !.concurrency = c, !.stopOnError = stop, !.taskTimeout = tmo,
                      !.batchDelay = delay]

\* runtime.ts 280-349: batchProcess called directly
BatchCall(n, c, stop, tmo, delay) ==
    /\ NoCallYet
    /\ BatchStart("batchProcess", n, BatchOptions(c, stop, tmo, delay))
    /\ OthersIdleBt

\* runtime.ts 316-333: the task of worker w settles before any timeout
BatchTaskSettles(w, ok) ==
    /\ bcall.fn = "batchProcess"
    /\ workers[w].pc = "task"
    /\ WorkerResumes(w, ok, "task error",
                     [taskSt EXCEPT ![workers[w].index] =
                         IF ok THEN "fulfilled" ELSE "rejected"])
    /\ UNCHANGED <<retry, waits>>
    /\ OthersIdleBt

\* runtime.ts 316-317, 52-72: with a taskTimeout (0 counts as none) the timer of
\* awaitOrTimeout fires first: executeTask gets the timeout error; the task
\* itself is not cancelled and runs on
BatchTaskTimesOut(w) ==
    /\ bcall.fn \in {"batchProcess", "batchMapWithRetry"}
    /\ bcall.taskTimeout # 0
    /\ workers[w].pc = "task"
    /\ WorkerResumes(w, FALSE, "timed out", [taskSt EXCEPT ![workers[w].index] = "orphan"])
    /\ UNCHANGED <<retry, waits>>
    /\ OthersIdleBt

\* runtime.ts 61-70: a task that had timed out settles: resolve and reject of
\* the promise awaitOrTimeout has already rejected do nothing
TimedOutTaskSettles(i, ok) ==
    /\ bcall.fn = "batchProcess"
    /\ taskSt[i] = "orphan"
    /\ taskSt' = [taskSt EXCEPT ![i] = IF ok THEN "fulfilled" ELSE "rejected"]
    /\ UNCHANGED <<bcall, nextTaskIndex, shouldStop, completedTasks, results, errors,
                   workers, retry, invocations, waits, returned>>
    /\ OthersIdleBt

\* runtime.ts 342-344, 337: the sleep(batchDelay) of worker w ends: the loop head
BatchDelayEnds(w) ==
    /\ workers[w].pc = "sleep"
    /\ UNCHANGED <<shouldStop, completedTasks, results, errors, retry, waits>>
    /\ LoopHead(w, taskSt, shouldStop)
    /\ BatchSettles
    /\ OthersIdleBt

\* batchProcess with every length, concurrency and option, tasks settling or
\* timing out in any order
NextBatch ==
    \/ \E n \in 0..MaxItems, c \in -1..MaxWorkers, stop \in BOOLEAN, tmo \in {0, 1},
          delay \in {0, 1} : BatchCall(n, c, stop, tmo, delay)
    \/ \E w \in WorkerIds, ok \in BOOLEAN : BatchTaskSettles(w, ok)
    \/ \E w \in WorkerIds : BatchTaskTimesOut(w)
    \/ \E i \in Indices, ok \in BOOLEAN : TimedOutTaskSettles(i, ok)
    \/ \E w \in WorkerIds : BatchDelayEnds(w)

\* the worker awaiting task i (there is one exactly while the task is awaited)
WorkerOf(i) == CHOOSE w \in WorkerIds : workers[w].pc = "task" /\ workers[w].index = i

\* runtime.ts 427: if (attempt < maxRetries): another attempt follows
RetriesLeft(attempt, maxRetries) == attempt < maxRetries

\* runtime.ts 403-440: batchMapWithRetry(items, mapper, options) with n items:
\* every item becomes a task that runs the retry loop, and the other options go
\* to batchProcess
RetryCall(n, c, stop, tmo, maxRetries, retryDelay, retryBackoff) ==
    /\ NoCallYet
    /\ BatchStart("batchMapWithRetry", n,
                  [BatchOptions(c, stop, tmo, 0) EXCEPT !.maxRetries = maxRetries,
                                                        !.retryDelay = retryDelay,
                                                        !.retryBackoff = retryBackoff])
    /\ OthersIdleBt

\* the retry loop of item i returns or throws: the worker awaiting the task
\* resumes; nothing awaits a task that has timed out
RetryTaskSettles(i, ok) ==
    LET ts == [taskSt EXCEPT ![i] = IF ok THEN "fulfilled" ELSE "rejected"] IN
    IF taskSt[i] = "running"
    THEN WorkerResumes(WorkerOf(i), ok, "task error", ts)
    ELSE /\ taskSt' = ts
         /\ UNCHANGED <<bcall, nextTaskIndex, shouldStop, completedTasks, results, errors,
                        workers, invocations, returned>>

\* runtime.ts 420-434: the mapper call of item i settles: on success the task
\* returns its value; on failure the loop sleeps currentDelay when retries are
\* left, and throws the last error when none is
MapperSettles(i, ok) ==
    /\ bcall.fn = "batchMapWithRetry"
    /\ taskSt[i] \in {"running", "orphan"}
    /\ ~retry[i].sleeping
    /\ IF ok
       THEN /\ RetryTaskSettles(i, TRUE)
            /\ UNCHANGED <<retry, waits>>
       ELSE IF RetriesLeft(retry[i].attempt, bcall.maxRetries)
       THEN /\ retry' = [retry EXCEPT ![i].sleeping = TRUE]
            /\ waits' = [waits EXCEPT ![i] = Append(@, retry[i].currentDelay)]
            /\ UNCHANGED <<bcall, nextTaskIndex, shouldStop, completedTasks, results,
                           errors, workers, taskSt, invocations, returned>>
       ELSE /\ retry' = [retry EXCEPT ![i].attempt = @ + 1]
            /\ RetryTaskSettles(i, FALSE)
            /\ UNCHANGED waits
    /\ OthersIdleBt

\* runtime.ts 428-429, 420-422: the sleep of the retry loop of item i ends: the
\* delay is multiplied by the backoff and the mapper is invoked again
RetrySleepEnds(i) ==
    /\ bcall.fn = "batchMapWithRetry"
    /\ retry[i].sleeping
    /\ retry' = [retry EXCEPT ![i] = [attempt |-> @.attempt + 1,
                                      currentDelay |-> @.currentDelay * bcall.retryBackoff,
                                      sleeping |-> FALSE]]
    /\ invocations' = [invocations EXCEPT ![i] = @ + 1]
    /\ UNCHANGED <<bcall, nextTaskIndex, shouldStop, completedTasks, results, errors,
                   workers, taskSt, waits, returned>>
    /\ OthersIdleBt

\* batchMapWithRetry with every length, concurrency and retry option, with and
\* without stopOnError and taskTimeout; mapper calls settle in any order
NextRetry ==
    \/ \E n \in 0..MaxItems, c \in 0..MaxWorkers, stop \in BOOLEAN, tmo \in {0, 1},
          maxRetries \in 0..MaxRetryOpt, retryDelay \in {1000}, retryBackoff \in {1, 2} :
          RetryCall(n, c, stop, tmo, maxRetries, retryDelay, retryBackoff)
    \/ \E i \in Indices, ok \in BOOLEAN : MapperSettles(i, ok)
    \/ \E i \in Indices : RetrySleepEnds(i)
    \/ \E w \in WorkerIds : BatchTaskTimesOut(w)

\* no call made yet
InitBt ==
    /\ bcall = IdleBCall
    /\ nextTaskIndex = 0
    /\ shouldStop = FALSE
    /\ completedTasks = 0
    /\ results = [i \in Indices |-> Hole]
    /\ errors = <<>>
    /\ workers = [w \in WorkerIds |-> [pc |-> "none", index |-> 0]]
    /\ taskSt = [i \in Indices |-> "new"]
    /\ retry = [i \in Indices |-> [attempt |-> 0, currentDelay |-> 0, sleeping |-> FALSE]]
    /\ invocations = [i \in Indices |-> 0]
    /\ waits = [i \in Indices |-> <<>>]
    /\ returned = NotReturned

\* executeWithConcurrency with every length and concurrency, tasks settling in
\* any order, each with success or failure
NextExecute ==
    \/ \E n \in 0..MaxLen, c \in -1..MaxConc : ExecuteCall(n, c)
    \/ \E w \in WorkerIds, ok \in BOOLEAN : ExecuteTaskSettles(w, ok)

-----------------------------------------------------------------------------

(* processBatches (utils/runtime.ts) and randomString (utils/random.ts) *)

IdlePBatch ==
    [st |-> "idle", len |-> 0, batchSize |-> 0, i |-> 0, batchIndex |-> 0,
     results |-> <<>>, invoked |-> 0, err |-> "none"]

\* runtime.ts 460: if (batchSize <= 0) throw
BatchSizeInvalid(size) == size <= 0

\* runtime.ts 455-469: processBatches(items, batchSize, processor) with n items:
\* the check, then the first turn of the loop up to its await of the processor
ProcessBatchesCall(n, size) ==
    /\ NoCallYet
    /\ LET call == [IdlePBatch EXCEPT !.len = n, !.batchSize = size] IN
        IF BatchSizeInvalid(size)
        THEN pbatch' = [call EXCEPT !.st = "rejected",
                                    !.err = "Batch size must be greater than 0"]
        ELSE IF 0 < n
        THEN pbatch' = [call EXCEPT !.st = "pending", !.batchIndex = 1, !.invoked = 1]
        ELSE pbatch' = [call EXCEPT !.st = "resolved"]
    /\ UNCHANGED rstring
    /\ OthersIdleUt

\* runtime.ts 467-473: the processor settles: its result is pushed and the loop
\* goes on with the next slice, or the call returns; a failure rejects the call
ProcessorSettles(ok) ==
    /\ pbatch.st = "pending"
    /\ IF ~ok
       THEN pbatch' = [pbatch EXCEPT !.st = "rejected", !.err = "processor error"]
       ELSE LET i == pbatch.i + pbatch.batchSize
                pushed == Append(pbatch.results,
                                 <<pbatch.i, Min(pbatch.i + pbatch.batchSize, pbatch.len)>>)
            IN  IF i < pbatch.len
                THEN pbatch' = [pbatch EXCEPT !.i = i, !.results = pushed,
                                              !.batchIndex = @ + 1, !.invoked = @ + 1]
                ELSE pbatch' = [pbatch EXCEPT !.i = i, !.results = pushed,
                                              !.st = "resolved"]
    /\ UNCHANGED rstring
    /\ OthersIdleUt

\* an option of RandomStringOptions: set to true, set to false, or left out
Tri == {"true", "false", "undefined"}

\* the characters argument of randomString: a string (a sequence of characters),
\* an options object, or nothing; the three character classes are one token each
NoOptions == [kind |-> "undefined", chars |-> <<>>, useUppercase |-> "undefined",
              useLowercase |-> "undefined", useNumeric |-> "undefined"]

CharacterArgs ==
    {[NoOptions EXCEPT !.kind = "string", !.chars = cs] :
        cs \in {<<>>, <<"a">>, <<"a", "b">>}}
    \cup {[NoOptions EXCEPT !.kind = "options", !.useUppercase = u, !.useLowercase = l,
                            !.useNumeric = d] : u \in Tri, l \in Tri, d \in Tri}
    \cup {NoOptions}

\* random.ts 68-84: resolveCharactersFromOptions: an option left out counts as
\* true only when no option is given at all
ResolveCharactersFromOptions(o) ==
    LET hasAnyOption == o.useUppercase # "undefined" \/ o.useLowercase # "undefined"
                           \/ o.useNumeric # "undefined"
        On(opt) == IF opt = "undefined" THEN ~hasAnyOption ELSE opt = "true"
    IN  (IF On(o.useUppercase) THEN <<"A-Z">> ELSE <<>>)
        \o (IF On(o.useLowercase) THEN <<"a-z">> ELSE <<>>)
        \o (IF On(o.useNumeric) THEN <<"0-9">> ELSE <<>>)

\* random.ts 86-89: const resolvedCharacters
ResolvedCharacters(ch) ==
    IF ch.kind = "string" THEN ch.chars ELSE ResolveCharactersFromOptions(ch)

IdleRString == [st |-> "idle", length |-> 0, characters |-> NoOptions, out |-> <<>>,
                err |-> "none"]

\* random.ts 64-102: randomString(length, characters); each character of the
\* result is any one of the resolved characters
RandomStringCall(length, ch) ==
    /\ NoCallYet
    /\ LET call == [IdleRString EXCEPT !.length = length, !.characters = ch]
           resolved == ResolvedCharacters(ch)
       IN  IF Len(resolved) = 0 /\ length > 0
           THEN rstring' = [call EXCEPT !.st = "threw",
                                        !.err = "Character set cannot be empty"]
           ELSE IF length <= 0
           THEN rstring' = [call EXCEPT !.st = "returned"]
           ELSE \E out \in [1..length -> {resolved[k] : k \in 1..Len(resolved)}] :
                    rstring' = [call EXCEPT !.st = "returned", !.out = out]
    /\ UNCHANGED pbatch
    /\ OthersIdleUt

\* no call made yet
InitUt ==
    /\ pbatch = IdlePBatch
    /\ rstring = IdleRString

\* one call of executeWithConcurrency, batchProcess (default options but the
\* concurrency), processBatches or randomString, with valid and invalid
\* configurations
NextConfig ==
    \/ \E n \in 0..MaxItems, c \in -1..MaxWorkers : ExecuteCall(n, c)
    \/ \E w \in WorkerIds, ok \in BOOLEAN : ExecuteTaskSettles(w, ok)
    \/ \E n \in 0..MaxItems, c \in -1..MaxWorkers : BatchCall(n, c, FALSE, 0, 0)
    \/ \E w \in WorkerIds, ok \in BOOLEAN : BatchTaskSettles(w, ok)
    \/ \E n \in 0..(MaxChunk + 1), size \in -1..MaxChunk : ProcessBatchesCall(n, size)
    \/ \E ok \in BOOLEAN : ProcessorSettles(ok)
    \/ \E length \in -1..MaxStr, ch \in CharacterArgs : RandomStringCall(length, ch)

-----------------------------------------------------------------------------

(* Specifications: one per component, the others idle *)

\* each specification starts its own component from every constructor argument
\* and keeps the other components in one fixed initial state
IdlePC == InitPC /\ maxAge = 0
IdleMx == InitMx /\ ttl = 1
IdleMg == InitMg /\ completed = [n \in Names |-> FALSE]

InitSpecPC == InitPC /\ IdleMx /\ IdleMg /\ InitRd /\ InitRs /\ InitRg /\ InitBt /\ InitUt
InitSpecMutex == IdlePC /\ InitMx /\ IdleMg /\ InitRd /\ InitRs /\ InitRg /\ InitBt /\ InitUt
InitSpecMig == IdlePC /\ IdleMx /\ InitMg /\ InitRd /\ InitRs /\ InitRg /\ InitBt /\ InitUt
InitSpecRedis == IdlePC /\ IdleMx /\ IdleMg /\ InitRd /\ InitRs /\ InitRg /\ InitBt /\ InitUt
InitSpecRunner == IdlePC /\ IdleMx /\ InitMg /\ InitRd /\ InitRs /\ InitRg /\ InitBt /\ InitUt
InitSpecRegistry == IdlePC /\ IdleMx /\ IdleMg /\ InitRd /\ InitRs /\ InitRg /\ InitBt /\ InitUt
InitSpecBatch == IdlePC /\ IdleMx /\ IdleMg /\ InitRd /\ InitRs /\ InitRg /\ InitBt /\ InitUt
InitSpecReconnect == IdlePC /\ IdleMx /\ IdleMg /\ InitRd /\ InitRs /\ InitRg /\ InitBt /\ InitUt

SpecPC == InitSpecPC /\ [][NextPC]_vars

SpecMutex == InitSpecMutex /\ [][NextMx]_vars

SpecKeys == InitSpecMutex /\ [][NextKeys]_vars

SpecMig == InitSpecMig /\ [][NextMg]_vars

SpecRunner == InitSpecRunner /\ [][NextRunner]_vars

SpecExits == InitSpecMig /\ [][NextExits]_vars

SpecExecute == InitSpecBatch /\ [][NextExecute]_vars

SpecBatch == InitSpecBatch /\ [][NextBatch]_vars

SpecConfig == InitSpecBatch /\ [][NextConfig]_vars

SpecRetry == InitSpecBatch /\ [][NextRetry]_vars

\* the event loop runs a due timer, and the store answers markComplete / markFailed;
\* nothing makes an up function settle
SpecRunnerLive ==
    /\ SpecRunner
    /\ WF_vars(TimeoutFires(Solo))
    /\ WF_vars(MarkCompleteReturns(Solo))
    /\ WF_vars(MarkFailedReturns(Solo))

SpecRedis == InitSpecRedis /\ [][NextRd]_vars

SpecReconnect == InitSpecReconnect /\ [][NextRs]_vars

SpecRegistry == InitSpecRegistry /\ [][NextRg]_vars

-----------------------------------------------------------------------------
(* PromiseCache: the claims *)

\* a step in which a get() call is issued, the promise it returns, and whether
\* it invoked its generator
GetIssued == Len(calls') = Len(calls) + 1
Returned == calls'[Len(calls')].promise
Invoked == calls'[Len(calls')].invoked

\* C1: whenever the stored promise is still pending, a further get() does not
\* invoke its generator and returns the pending promise (so it resolves with the
\* pending generation's outcome).
C1_PendingGetShares ==
    [][(GetIssued /\ StateOf(cache) = "pending") => (~Invoked /\ Returned = cache)]_vars

\* C2: once a generator failure (rejection, or a throwing generator call) has been
\* delivered, the next get() invokes its generator instead of returning the
\* failed promise.
C2_NextGetAfterFailureInvokes ==
    [][(GetIssued /\ lastFailure = "delivered") => Invoked]_vars

\* C3: a successful result is not reused at or after completion + maxAge: a get()
\* issued at such a time invokes its generator.
C3_ExpiredResultNotReused ==
    [][(GetIssued /\ StateOf(cache) = "ok" /\ now >= promises[cache].doneAt + maxAge)
          => Invoked]_vars

\* C4: with no explicit clear(), a get() issued inside the validity window
\* [c, c + maxAge) of the latest generation, which succeeded at c, returns that
\* generation's promise without invoking its generator.
C4_ValidityWindow ==
    [][(/\ GetIssued
        /\ clears = 0
        /\ LatestGen # Null
        /\ promises[LatestGen].st = "ok"
        /\ promises[LatestGen].doneAt <= now
        /\ now < promises[LatestGen].doneAt + maxAge)
          => (~Invoked /\ Returned = LatestGen)]_vars

\* the callers that were given promise p
Attached(p) == {i \in 1..Len(calls) : calls[i].promise = p}

\* C5: when the generator of a generation rejects with error e, every caller
\* attached to that generation rejects with the same error e, and the generator
\* was invoked once for all of them.
C5_RejectionShared ==
    \A p \in 1..MaxCalls :
        promises[p].gen = "rejected" =>
            /\ \A i \in Attached(p) : p \in delivered => Result(i) = <<"err", p>>
            /\ Cardinality({i \in Attached(p) : calls[i].invoked}) = 1

C5_Witness ==
    \E p \in 1..MaxCalls :
        /\ promises[p].gen = "rejected"
        /\ p \in delivered
        /\ Cardinality(Attached(p)) >= 2
        /\ \A i \in Attached(p) : Result(i) = <<"err", p>>

\* C6: the state machine EMPTY -> PENDING -> (SETTLED_OK | SETTLED_ERROR):
\* a pending promise leaves the cache only when its own generator settles or on an
\* explicit clear(); a successfully settled one is emptied only by its own expiry
\* timer or by clear(); a failed promise is never left in the cache.
C6_StateMachine ==
    [][/\ (StateOf(cache) = "pending" /\ cache' # cache)
            => (promises'[cache].st # "pending" \/ clears' > clears)
       /\ (StateOf(cache) = "ok" /\ cache' = Null)
            => \/ clears' > clears
               \/ /\ timers # <<>>
                  /\ timers' = Tail(timers)
                  /\ Head(timers) = promises[cache].doneAt + TimerDelay(maxAge)
       /\ (cache' # Null => promises'[cache'].st # "err")]_vars

-----------------------------------------------------------------------------
(* MutexManager: the claims *)

\* C8: for any key, at most one function passed to runExclusive(key, fn) is
\* executing at any time.
C8_MutualExclusion ==
    \A t1, t2 \in Tasks :
        (t1 # t2 /\ task[t1].pc = "running" /\ task[t2].pc = "running")
            => task[t1].key # task[t2].key

\* C13: a key's mutex is removed only by its cleanup timer, which is due exactly
\* ttl after the last getMutex / runExclusive / waitIfLocked call for the key:
\* every such call restarts the countdown, so the mutex is never removed before
\* ttl has elapsed since its last use, and the first use after a removal creates
\* a new mutex.
C13_TtlCleanup ==
    [][\A k \in Keys :
          /\ (mutexMap[k] # Null /\ mutexMap'[k] = Null)
                => (cleanupTimers[k] = lastUse[k] + ttl /\ mxNow >= lastUse[k] + ttl)
          /\ (mutexMap'[k] # Null) => cleanupTimers'[k] = lastUse'[k] + ttl
          /\ (mutexMap[k] = Null /\ mutexMap'[k] # Null)
                => (mutexMap'[k] = nextMutex + 1 /\ nextMutex' = nextMutex + 1)]_vars

\* a key used by one caller, cleaned up, and used again by another caller, which
\* got a new mutex whose countdown runs from that last use
C13_Witness ==
    \E t1, t2 \in Tasks :
        /\ task[t1].key = task[t2].key
        /\ task[t1].mutex = 1
        /\ task[t2].mutex = 2
        /\ mutexMap[task[t2].key] = 2
        /\ lastUse[task[t2].key] > 0
        /\ cleanupTimers[task[t2].key] = lastUse[task[t2].key] + ttl

\* the field/value pairs of a record key
EntrySet(r) == {r.entries[i] : i \in 1..Len(r.entries)}

\* two keys that differ: two different strings, a string and a record, or two
\* records with different entries
KeysDiffer(r1, r2) ==
    \/ r1.type # r2.type
    \/ r1.type = "string" /\ r1.str # r2.str
    \/ r1.type = "record" /\ EntrySet(r1) # EntrySet(r2)

\* two records with the same field/value pairs
SameEntries(r1, r2) ==
    r1.type = "record" /\ r2.type = "record" /\ EntrySet(r1) = EntrySet(r2)

\* the mutexes the manager holds
Registered == {mutexMap[k] : k \in Keys} \ {Null}

\* C14: two getMutex calls with keys that differ never return the same mutex.
C14_DistinctKeysDistinctMutexes ==
    \A i, j \in 1..Len(gets) :
        KeysDiffer(gets[i].raw, gets[j].raw) => gets[i].mutex # gets[j].mutex

\* C15: getMutex with a record returns the mutex that an earlier getMutex returned
\* for a record with the same field/value pairs, in whatever insertion order,
\* as long as that mutex has not been cleaned up.
C15_OrderIndependent ==
    [][Len(gets') = Len(gets) + 1 =>
          \A i \in 1..Len(gets) :
              (SameEntries(gets[i].raw, gets'[Len(gets')].raw) /\ gets[i].mutex \in Registered)
                  => gets'[Len(gets')].mutex = gets[i].mutex]_vars

\* the same record given in two insertion orders got the same mutex
C15_Witness ==
    \E i, j \in 1..Len(gets) :
        /\ i < j
        /\ gets[i].raw # gets[j].raw
        /\ SameEntries(gets[i].raw, gets[j].raw)
        /\ gets[i].mutex = gets[j].mutex

-----------------------------------------------------------------------------
(* MigrationRunner: the claims *)

\* a call that is executing the migration's up or down function
Executing(c) == mcall[c].pc \in {"up", "down"}

\* a run() or rollback() call that has been made and has not settled
InProgress(c) == mcall[c].pc \notin {"idle", "resolved", "rejected"}

\* C9: a run/rollback call made while another run/rollback of the same migration
\* is in progress rejects with MigrationAlreadyRunningError, and at most one
\* up/down of a given migration is executing at any time.
C9_NoConcurrentExecution ==
    /\ [](\A c, d \in Runs :
            (c # d /\ Executing(c) /\ Executing(d)) => mcall[c].name # mcall[d].name)
    /\ [][\A c \in Runs :
            (/\ mcall[c].pc = "idle"
             /\ mcall'[c].pc # "idle"
             /\ \E d \in Runs : d # c /\ InProgress(d) /\ mcall[d].name = mcall'[c].name
             /\ mcall'[c].err # "NotRollbackable")
                => mcall'[c].err = "AlreadyRunning"]_vars

\* the awaits of markComplete, markFailed and markRollback
MarkPcs == {"markComplete", "markFailed", "markRollback"}

\* C16: a dry run never marks: a call with dryRun true never calls markComplete,
\* markFailed or markRollback, on success and on every failure path, and leaves
\* the completion records as they are.
C16_DryRunNeverMarks ==
    [][\A c \in Calls :
          /\ mcall'[c].dryRun => mcall'[c].pc \notin MarkPcs
          /\ (mcall[c].dryRun /\ mcall'[c] # mcall[c]) => completed' = completed]_vars

\* dry runs that failed by timeout and by validation, and one that succeeded
C16_Witness ==
    /\ mcall[Solo].dryRun
    /\ mcall[Solo].op = "pending"
    /\ mcall[Solo].pc = "resolved"
    /\ \E i \in 1..Len(mcall[Solo].results) : mcall[Solo].results[i].status = "failed"
    /\ \E i \in 1..Len(mcall[Solo].results) : mcall[Solo].results[i].status = "completed"

\* C17: with skipCompleted, whatever dryRun is, a migration whose isCompleted
\* answers true is not validated or run: run() rejects with
\* MigrationAlreadyCompletedError and runPending records it as 'skipped'.
C17_CompletedNotRun ==
    [][\A c \in Calls :
          /\ (mcall[c].pc = "isCompleted" /\ mcall[c].skip /\ completed[mcall[c].name]
                 /\ mcall'[c] # mcall[c])
                => /\ mcall'[c].pc \notin {"validate", "up"}
                   /\ mcall[c].op = "run"
                         => (mcall'[c].pc = "rejected" /\ mcall'[c].err = "AlreadyCompleted")
          /\ (mcall[c].pc = "pendingIsCompleted" /\ completed[mcall[c].name]
                 /\ mcall'[c] # mcall[c])
                => mcall'[c].results =
                      Append(mcall[c].results, [name |-> mcall[c].name, status |-> "skipped"])]_vars

\* C18: runPending processes the migrations one at a time in registration order;
\* without continueOnError it rejects at the first failure (the failed result is
\* the last one and nothing runs after it); with continueOnError it never rejects
\* and resolves with one result per registered migration, in registration order.
C18_PendingErrorPolicy ==
    LET r == mcall[Solo] IN
    r.op = "pending" =>
        /\ Len(r.results) <= Len(RegOrder)
        /\ \A i \in 1..Len(r.results) : r.results[i].name = RegOrder[i]
        /\ r.pc \notin {"next", "resolved", "rejected"}
              => r.name = RegOrder[Len(r.results) + 1]
        /\ ~r.cont => \A i \in 1..Len(r.results) :
                          r.results[i].status = "failed"
                              => (i = Len(r.results) /\ r.pc = "rejected")
        /\ r.cont => r.pc # "rejected"
        /\ r.pc = "resolved" => Len(r.results) = Len(RegOrder)

\* continueOnError: the first migration failed, the second was still run
C18_Witness ==
    /\ mcall[Solo].op = "pending"
    /\ mcall[Solo].cont
    /\ mcall[Solo].pc = "resolved"
    /\ mcall[Solo].results =
          <<[name |-> "m1", status |-> "failed"], [name |-> "m2", status |-> "completed"]>>

\* C19: when the timer of run(name, {timeout}) fires before up has settled, the
\* run fails: markFailed is called (not in a dry run) and the call rejects;
\* markComplete is not called for that run, also when up succeeds afterwards;
\* and a run with a timeout settles even if up never does.
C19_Timeout ==
    /\ [][\A c \in Calls :
            (mcall[c].op = "run" /\ mcall[c].pc = "up" /\ Len(orphans') > Len(orphans))
                => /\ mcall'[c].err = "Execution:Timeout"
                   /\ mcall'[c].pc = IF mcall[c].dryRun THEN "rejected" ELSE "markFailed"]_vars
    /\ [][\A c \in Calls :
            (mcall[c].op = "run" /\ mcall[c].err = "Execution:Timeout" /\ mcall'[c].op = "run"
               /\ mcall'[c].made = mcall[c].made)
                => (mcall'[c].pc \in {"markFailed", "rejected"} /\ completed' = completed)]_vars
    /\ ((mcall[Solo].op = "run" /\ mcall[Solo].timeout /\ mcall[Solo].pc = "up")
            ~> (mcall[Solo].pc \in {"resolved", "rejected"}))

\* a run that timed out and was marked failed; its up settled afterwards and
\* the migration is not recorded as completed
C19_Witness ==
    /\ mcall[Solo].op = "run"
    /\ mcall[Solo].made = 1
    /\ ~mcall[Solo].dryRun
    /\ mcall[Solo].pc = "rejected"
    /\ mcall[Solo].err = "Execution:Timeout"
    /\ orphans = <<>>
    /\ ~completed[mcall[Solo].name]

-----------------------------------------------------------------------------
(* MigrationRegistry: the claims *)

\* C20: a register or registerMany call that throws DuplicateMigrationError
\* leaves the registry as it was: the same migrations in the same order, and
\* get(name) answers as before.
C20_DuplicateLeavesRegistry ==
    [][regErr' = "Duplicate" =>
          /\ migrations' = migrations
          /\ \A m \in Offered :
                GetMigration(migrations', m.name) = GetMigration(migrations, m.name)]_vars

-----------------------------------------------------------------------------
(* RedisCacheManager: the claims *)

\* C10: set overwrites unconditionally: when set(key, v) resolves, the text stored
\* under the key is that of v, whether or not the key already held a value.
C10_SetOverwrites ==
    [][\A c \in RCalls :
          (rcall[c].op = "set" /\ rcall[c].pc = "setSent" /\ rcall'[c].pc = "resolved")
              => store'[rcall[c].key] = Stringify(rcall[c].value)]_vars

\* C11: null passthrough: when the data function of a get() that missed resolves
\* to null or undefined, nothing is written to the store and the call resolves
\* (it does not reject) with that same value: null as null, undefined as undefined.
C11_NullPassthrough ==
    [][\A c \in RCalls :
          (rcall[c].pc = "callback" /\ rcall'[c].value \in {"null", "undefined"})
              => /\ store' = store
                 /\ rcall'[c].pc = "resolved"
                 /\ rcall'[c].result = rcall'[c].value]_vars

\* C12: the delays handed out during one outage grow exponentially with the retry
\* count (below the cap each increase is larger than the one before), never
\* exceed 30 000 ms, and at most 5 of them are handed out before the client
\* gives up.
C12_ExponentialBackoff ==
    /\ \A i \in 1..Len(rsDelays) : rsDelays[i] <= 30000
    /\ \A i \in 1..Len(rsDelays) :
          (i + 2 <= Len(rsDelays) /\ rsDelays[i + 2] < 30000)
              => rsDelays[i + 2] - rsDelays[i + 1] > rsDelays[i + 1] - rsDelays[i]
    /\ Len(rsDelays) <= 5

-----------------------------------------------------------------------------
(* PromiseCache: the state invariant *)

\* C28: expirationTime is non-null only while a promise is cached, and then it is
\* the completion time + maxAge of that very cached promise: it is null while the
\* cached promise is pending, and never carries over from an earlier or a
\* cleared generation.
C28_ExpirationOfCachedPromise ==
    expirationTime # Null =>
        /\ cache # Null
        /\ promises[cache].st = "ok"
        /\ expirationTime = promises[cache].doneAt + maxAge

-----------------------------------------------------------------------------
(* RedisCacheManager: reads under concurrency *)

\* C30: concurrent get(key) calls on a missing key all observe the value that is
\* stored: a get that missed and resolves with the (non-null, JSON-faithful)
\* value of its callback resolves with the value held under the key at that
\* moment, whatever the other calls on the key did in between.
C30_ConcurrentReadsAgree ==
    [][\A c \in RCalls :
          (/\ rcall[c].op = "get"
           /\ \A d \in RCalls : rcall[d].op = "get" => rcall[d].key = rcall[c].key
           /\ \A d \in RCalls : rcall[d].op \in {"get", "none"}
           /\ rcall[c].pc = "setSent"
           /\ rcall'[c].pc = "resolved"
           /\ Parse(Stringify(rcall[c].value)) = rcall[c].value)
              => Parse(store'[rcall[c].key]) = rcall'[c].result]_vars

-----------------------------------------------------------------------------
(* MigrationRunner: error classes, marking, the running set *)

\* runner.ts 184, 196: the cause carried by the error run() or rollback() rejected
\* with: what was thrown inside the try block
CauseOf(e) ==
    CASE e \in {"Execution:Validation"} -> "MigrationValidationError"
      [] e \in {"Execution:Timeout", "Rollback:Timeout"} -> "MigrationTimeoutError"
      [] e \in {"Execution:Up", "Execution:ValidateThrew", "Execution:MarkCompleteThrew",
                "Rollback:Down", "Rollback:MarkRollbackThrew"} -> "Error"
      [] OTHER -> "none"

\* runner.ts 111, 118, 196, 215, 278: the class of the error a call rejected with;
\* everything caught by the catch block of run() is wrapped in a
\* MigrationExecutionError, by that of rollback() in a MigrationRollbackError
ClassOf(e) ==
    CASE e \in {"Execution:Validation", "Execution:Timeout", "Execution:Up",
                "Execution:ValidateThrew", "Execution:MarkCompleteThrew"}
              -> "MigrationExecutionError"
      [] e \in {"Rollback:Timeout", "Rollback:Down", "Rollback:MarkRollbackThrew"}
              -> "MigrationRollbackError"
      [] e = "AlreadyRunning" -> "MigrationAlreadyRunningError"
      [] e = "AlreadyCompleted" -> "MigrationAlreadyCompletedError"
      [] e = "NotRollbackable" -> "MigrationNotRollbackableError"
      [] OTHER -> "Error"

\* C25: run() rejects with the error class documented for the cause: a
\* MigrationValidationError when validate answers valid: false, a
\* MigrationTimeoutError when the timeout elapses, a MigrationExecutionError
\* carrying the original error as cause when up throws.
C25_ErrorClassOfCause ==
    \A c \in Calls :
        (mcall[c].op = "run" /\ mcall[c].pc = "rejected") =>
            /\ mcall[c].err = "Execution:Validation"
                  => ClassOf(mcall[c].err) = "MigrationValidationError"
            /\ mcall[c].err = "Execution:Timeout"
                  => ClassOf(mcall[c].err) = "MigrationTimeoutError"
            /\ mcall[c].err = "Execution:Up"
                  => /\ ClassOf(mcall[c].err) = "MigrationExecutionError"
                     /\ CauseOf(mcall[c].err) = "Error"

\* C26: in a run() that is not a dry run, markComplete is called only after up
\* has completed successfully and markFailed only after validate or up has
\* failed: a run whose up succeeded (and which has called markComplete) never
\* calls markFailed.
C26_MarkCompleteXorFailed ==
    [][\A c \in Calls :
          /\ (mcall[c].pc # "markComplete" /\ mcall'[c].pc = "markComplete")
                => mcall[c].pc = "up"
          /\ (mcall[c].pc # "markFailed" /\ mcall'[c].pc = "markFailed")
                => mcall[c].pc \in {"validate", "up"}]_vars

\* a call slot with no run() or rollback() in progress (runPending between two
\* migrations has none)
CallSettled(c) ==
    mcall[c].pc \in {"idle", "resolved", "rejected", "next", "pendingIsCompleted"}

\* runner.ts 298, 326: the names getStatus() lists under running
StatusRunning == {n \in Names : n \in runningMigrations}

\* C29: no migration is left stuck as running: once every call for a name has
\* settled, whichever way it ended (success, already completed, validation
\* failure, up/down error, timeout, a rejection of markComplete, markFailed or
\* markRollback), getStatus() does not list the name under running, and a new
\* run(name) is not rejected with MigrationAlreadyRunningError.
C29_NeverStuckRunning ==
    /\ [](\A n \in Names :
            (\A c \in Calls : mcall[c].name = n => CallSettled(c))
                => n \notin StatusRunning)
    /\ [][\A c \in Calls :
            (/\ mcall'[c].made = mcall[c].made + 1
             /\ mcall'[c].op = "run"
             /\ \A d \in Calls : mcall[d].name = mcall'[c].name => CallSettled(d))
                => mcall'[c].err # "AlreadyRunning"]_vars

\* two concurrent calls for m1 have both ended in a rejection of the store: a
\* run() whose markFailed rejected and a rollback() whose markRollback rejected
C29_Witness ==
    \E c, d \in Runs :
        /\ mcall[c].pc = "rejected" /\ mcall[c].err = "MarkFailedThrew"
        /\ mcall[d].pc = "rejected" /\ mcall[d].err = "Rollback:MarkRollbackThrew"
        /\ mcall[c].name = mcall[d].name
        /\ mcall[c].name \notin StatusRunning

-----------------------------------------------------------------------------
(* executeWithConcurrency, batchProcess, batchMapWithRetry: the claims *)

\* the tasks in flight: started and not settled
InFlight == {i \in Indices : taskSt[i] = "running"}

\* C21: executeWithConcurrency(tasks, c) with c >= 1 has at most
\* min(c, tasks.length) tasks in flight at every moment and invokes no task
\* twice; when it resolves (no task failed) every task was invoked exactly once
\* and the resolved array holds the result of task i at index i, whatever the
\* order the tasks completed in.
C21_BoundedConcurrency ==
    (bcall.fn = "executeWithConcurrency" /\ bcall.concurrency >= 1) =>
        /\ Cardinality(InFlight) <= Min(bcall.concurrency, bcall.len)
        /\ \A i \in Indices : invocations[i] <= 1
        /\ bcall.st = "resolved" =>
              /\ DOMAIN returned = 0..(bcall.len - 1)
              /\ \A i \in 0..(bcall.len - 1) :
                    invocations[i] = 1 /\ returned[i] = TaskValue(i)

\* three tasks under concurrency 2 have resolved, and task 1 completed before
\* task 0: the second worker went on to task 2, the first found nothing left
C21_Witness ==
    /\ bcall.fn = "executeWithConcurrency"
    /\ bcall.st = "resolved"
    /\ bcall.len = 3
    /\ bcall.concurrency = 2
    /\ workers[1].index = 0
    /\ workers[2].index = 2

\* C22: batchProcess with stopOnError stops on the first error: from the step
\* that records a failed task on, no task that has not been started is started
\* (tasks in flight may finish), and the call does not reject: when the last
\* worker has returned it has resolved with a BatchResult.
C22_StopOnFirstError ==
    /\ [][(bcall.fn = "batchProcess" /\ bcall.stopOnError /\ errors' # <<>>)
             => \A i \in Indices : taskSt[i] = "new" => taskSt'[i] = "new"]_vars
    /\ []((bcall.fn = "batchProcess" /\ bcall.stopOnError /\ errors # <<>>)
             => /\ bcall.st # "rejected"
                /\ AllReturned(workers) => bcall.st = "resolved")

\* three tasks under concurrency 2 and stopOnError: task 0 failed, task 1 was in
\* flight and finished, task 2 was never started, and the call has resolved
C22_Witness ==
    /\ bcall.fn = "batchProcess"
    /\ bcall.stopOnError
    /\ bcall.len = 3
    /\ bcall.st = "resolved"
    /\ Len(errors) = 1
    /\ errors[1].index = 0
    /\ results[1] = TaskValue(1)
    /\ taskSt[2] = "new"

\* C23: the BatchResult of batchProcess, for all options: total = tasks.length,
\* failed = errors.length = the number of tasks that threw or timed out,
\* successful = results.length = the number of tasks that ran to completion
\* without error, and no index appears twice in errors.
C23_ResultAccounting ==
    (bcall.fn = "batchProcess" /\ bcall.st = "resolved") =>
        /\ returned.total = bcall.len
        /\ returned.failed = Len(returned.errors)
        /\ returned.failed = Cardinality({i \in Indices : taskSt[i] \in {"rejected", "orphan"}
                                              \/ (\E k \in 1..Len(errors) : errors[k].index = i)})
        /\ returned.successful = Len(returned.results)
        /\ returned.successful = Cardinality({i \in Indices : results[i] # Hole})
        /\ \A j, k \in 1..Len(returned.errors) :
              returned.errors[j].index = returned.errors[k].index => j = k

\* C24: configuration errors fail fast: executeWithConcurrency and batchProcess
\* called with concurrency <= 0, processBatches called with batchSize <= 0 and
\* randomString called with an empty character set and length > 0 fail at call
\* time with a descriptive error, before any task or processor has been invoked.
C24_ConfigurationFailsFast ==
    /\ (bcall.fn \in {"executeWithConcurrency", "batchProcess"} /\ bcall.concurrency <= 0)
          => /\ bcall.st = "rejected"
             /\ bcall.err = "Concurrency must be greater than 0"
             /\ \A i \in Indices : invocations[i] = 0 /\ taskSt[i] = "new"
    /\ (pbatch.st # "idle" /\ pbatch.batchSize <= 0)
          => /\ pbatch.st = "rejected"
             /\ pbatch.err = "Batch size must be greater than 0"
             /\ pbatch.invoked = 0
    /\ (rstring.st # "idle" /\ rstring.length > 0
           /\ ResolvedCharacters(rstring.characters) = <<>>)
          => /\ rstring.st = "threw"
             /\ rstring.err = "Character set cannot be empty"

\* batchProcess was called with a concurrency of 0 and three tasks
C24_Witness ==
    /\ bcall.fn = "batchProcess"
    /\ bcall.concurrency = 0
    /\ bcall.len = 3
    /\ bcall.st = "rejected"


RECURSIVE Pow(_, _)
\* b to the power e
Pow(b, e) == IF e = 0 THEN 1 ELSE b * Pow(b, e - 1)

\* item i is reported in the errors of the batch
ReportedInErrors(i) == \E k \in 1..Len(errors) : errors[k].index = i

\* what holds of every item of a batchMapWithRetry call in every state
RetryBoundOf(i) ==
    /\ invocations[i] <= bcall.maxRetries + 1
    /\ ReportedInErrors(i) =>
           invocations[i] = bcall.maxRetries + 1 /\ taskSt[i] = "rejected"
    /\ Len(waits[i]) <= bcall.maxRetries
    /\ \A k \in 1..Len(waits[i]) :
           waits[i][k] = bcall.retryDelay * Pow(bcall.retryBackoff, k - 1)

\* C27: in batchMapWithRetry the mapper is invoked at most maxRetries + 1 times
\* for every item, never again after its first success, an item is in errors
\* only after maxRetries + 1 failed attempts, and the wait before retry k is
\* retryDelay * retryBackoff^(k-1), with no wait after the last failed attempt
C27_RetryBound ==
    /\ [](bcall.fn = "batchMapWithRetry" /\ bcall.st # "rejected" =>
             \A i \in 0..(bcall.len - 1) : RetryBoundOf(i))
    /\ [][\A i \in Indices : taskSt[i] = "fulfilled" =>
             invocations'[i] = invocations[i]]_vars

====
